---- MODULE Spec2Model ----
(***************************************************************************)
(* Model of the Slack/JIRA assistant: the agent loop getChatResponse       *)
(* (src/api/_openai.ts) with its capability fan-out, and the field-value   *)
(* cache getSupportedValuesForFields (src/unnamed/part_002, the _jira      *)
(* module).                                                                *)
(*                                                                         *)
(* JavaScript runs each piece of code between two awaits without           *)
(* interleaving, so every action below is one such piece: the code from    *)
(* the resumption of an await up to the next await, return or throw.       *)
(***************************************************************************)
EXTENDS Integers, Sequences, FiniteSets, TLC

\* Longest tool_calls batch the language model answers with.
MaxCalls == 2

\* Number of callers of getSupportedValuesForFields in SpecCache.
NumCallers == 3

\* Number of invocations of sendChatResponse that run at once in
\* SpecConcurrent.
NumInvocations == 2

(***************************************************************************)
(* JavaScript values                                                       *)
(***************************************************************************)
Undefined == "undefined"

NullValue == [kind |-> "null"]

UsersValue == [kind |-> "users",
               users |-> <<[accountId |-> "acc123", name |-> "John",
                            email |-> "john@demo.com"]>>]

\* A rejection reason: an Error object.  hasResponse tells whether the error
\* carries an HTTP response (axios sets error.response only when the server
\* answered); status and data are that response's fields.
AxiosHttpError == [code |-> "ERR_BAD_REQUEST", name |-> "AxiosError",
                   message |-> "Request failed with status code 400",
                   hasResponse |-> TRUE, status |-> "400",
                   data |-> "errorMessages"]

AxiosNetworkError == [code |-> "ECONNRESET", name |-> "AxiosError",
                      message |-> "socket hang up",
                      hasResponse |-> FALSE, status |-> Undefined,
                      data |-> Undefined]

TypeError == [code |-> Undefined, name |-> "TypeError",
              message |-> "Cannot read properties of undefined",
              hasResponse |-> FALSE, status |-> Undefined,
              data |-> Undefined]

SyntaxError == [code |-> Undefined, name |-> "SyntaxError",
                message |-> "Unexpected end of JSON input",
                hasResponse |-> FALSE, status |-> Undefined,
                data |-> Undefined]

APIError == [code |-> "rate_limit_exceeded", name |-> "APIError",
             message |-> "429 Rate limit reached",
             hasResponse |-> FALSE, status |-> "429", data |-> Undefined]

NoError == [code |-> Undefined, name |-> "none", message |-> Undefined,
            hasResponse |-> FALSE, status |-> Undefined, data |-> Undefined]

(***************************************************************************)
(* JSON                                                                    *)
(***************************************************************************)
\* An argument payload is the token sequence of a JSON text.
Punctuation == {"{", "}", ":", ","}

EmptyObjectPayload == <<"{", "}">>
QueryPayload == <<"{", "query", ":", "bob", "}">>
TruncatedPayload == <<"{", "query", ":">>
NullPayload == <<"null">>

ArgumentPayloads ==
    {EmptyObjectPayload, QueryPayload, TruncatedPayload, NullPayload}

\* The tokens between the braces are members  key : value , key : value ...
IsMemberList(inner) ==
    \/ Len(inner) = 0
    \/ /\ Len(inner) % 4 = 3
       /\ \A p \in 1..Len(inner) :
            CASE p % 4 = 1 -> inner[p] \notin Punctuation
              [] p % 4 = 2 -> inner[p] = ":"
              [] p % 4 = 3 -> inner[p] \notin Punctuation
              [] OTHER     -> inner[p] = ","

\* JSON.parse: ok = FALSE stands for the SyntaxError it throws; otherwise the
\* parsed value is null or an object, given by its set of <<key, value>>.
JSONParse(tokens) ==
    IF tokens = <<"null">>
    THEN [ok |-> TRUE, type |-> "null", fields |-> {}]
    ELSE IF /\ Len(tokens) >= 2
            /\ tokens[1] = "{"
            /\ tokens[Len(tokens)] = "}"
            /\ IsMemberList(SubSeq(tokens, 2, Len(tokens) - 1))
         THEN [ok |-> TRUE, type |-> "object",
               fields |-> {<<tokens[p], tokens[p + 2]>> :
                             p \in {q \in 2..(Len(tokens) - 1) : q % 4 = 2}}]
         ELSE [ok |-> FALSE, type |-> "none", fields |-> {}]

\* JSON.stringify of an object literal leaves out the keys whose value is
\* undefined.
DefinedEntries(entries) == SelectSeq(entries, LAMBDA e : e[2] # Undefined)

\* JSON.stringify of a capability's payload.
JSONStringify(value) == [type |-> "json", value |-> value]

\* JSON.stringify of the error descriptor of mapToolResultsToPrompts.
JSONStringifyError(reason) ==
    [type |-> "json",
     value |-> [kind |-> "object",
                entries |-> DefinedEntries(<< <<"code", reason.code>>,
                                              <<"name", reason.name>>,
                                              <<"message", reason.message>>,
                                              <<"status", reason.status>>,
                                              <<"body", reason.data>> >>)]]

TextContent(text) == [type |-> "text", value |-> [kind |-> "text", text |-> text]]

(***************************************************************************)
(* Promises                                                                *)
(***************************************************************************)
UndefinedValue == [kind |-> "undefined"]

Pending == [status |-> "pending", value |-> UndefinedValue, reason |-> NoError]

Fulfilled(value) == [status |-> "fulfilled", value |-> value, reason |-> NoError]

Rejected(reason) == [status |-> "rejected", value |-> UndefinedValue, reason |-> reason]

IsSettled(promise) == promise.status \in {"fulfilled", "rejected"}

(***************************************************************************)
(* The issue tracker's answers                                             *)
(***************************************************************************)
\* Answers of GET /rest/api/3/issue/createmeta.  The project's configuration
\* may change between two requests (CreateMetaA, CreateMetaB); a project key
\* the account cannot see gives an empty project list.
CreateMetaA ==
    [projects |-> <<
       [issuetypes |-> <<
          [name |-> "Task", id |-> "10001",
           fields |-> [priority |-> <<[name |-> "Medium", id |-> "3"]>>,
                       components |-> <<[name |-> "na", id |-> "20"]>>,
                       customfield_11997 |-> <<[value |-> "acme", id |-> "30"]>>,
                       customfield_11800 |-> <<[value |-> "prod", id |-> "40"]>>]]
       >>]
    >>]

CreateMetaB ==
    [projects |-> <<
       [issuetypes |-> <<
          [name |-> "Task", id |-> "10001",
           fields |-> [priority |-> <<[name |-> "Medium", id |-> "3"],
                                     [name |-> "High", id |-> "2"]>>,
                       components |-> <<[name |-> "na", id |-> "20"]>>,
                       customfield_11997 |-> <<[value |-> "acme", id |-> "30"]>>,
                       customfield_11800 |-> <<[value |-> "prod", id |-> "40"]>>]]
       >>]
    >>]

CreateMetaEmpty == [projects |-> <<>>]

\* What axios.get resolves or rejects with: ok = TRUE carries res.data.
CreateMetaAnswers ==
    {[ok |-> TRUE, data |-> CreateMetaA, error |-> NoError],
     [ok |-> TRUE, data |-> CreateMetaB, error |-> NoError],
     [ok |-> TRUE, data |-> CreateMetaEmpty, error |-> NoError],
     [ok |-> FALSE, data |-> CreateMetaEmpty, error |-> AxiosHttpError]}

UserSearchAnswers ==
    {[ok |-> TRUE, data |-> UsersValue, error |-> NoError],
     [ok |-> FALSE, data |-> NullValue, error |-> AxiosHttpError],
     [ok |-> FALSE, data |-> NullValue, error |-> AxiosNetworkError]}

(***************************************************************************)
(* getSupportedValuesForFields and the field-value cache                   *)
(***************************************************************************)
MapNameId(values) ==
    [i \in 1..Len(values) |-> [name |-> values[i].name, id |-> values[i].id]]

MapValueId(values) ==
    [i \in 1..Len(values) |-> [name |-> values[i].value, id |-> values[i].id]]

\* The FieldValueMap built from projects[0] of a createmeta answer.
FieldValueMapOf(project) ==
    [kind |-> "fieldValueMap",
     issuetypes |-> MapNameId(project.issuetypes),
     priority |-> MapNameId(project.issuetypes[1].fields.priority),
     components |-> MapNameId(project.issuetypes[1].fields.components),
     brands |-> MapValueId(project.issuetypes[1].fields.customfield_11997),
     environments |-> MapValueId(project.issuetypes[1].fields.customfield_11800)]

\* getSupportedValuesForFields up to its await: the cached map when the
\* global is set (fetch = FALSE), an upstream request otherwise.
getSupportedValuesForFields(global) ==
    IF global # NullValue
    THEN [fetch |-> FALSE, promise |-> Fulfilled(global)]
    ELSE [fetch |-> TRUE, promise |-> Pending]

\* getSupportedValuesForFields from the answer of axios.get to its return:
\* the promise it settles with and the value of fieldValueMapGlobal it leaves
\* (the function returns its local fieldValueMap; no statement assigns the
\* global).
getSupportedValuesForFieldsResume(answer, global) ==
    IF ~answer.ok
    THEN [promise |-> Rejected(answer.error), global |-> global]
    ELSE IF Len(answer.data.projects) = 0
         THEN [promise |-> Rejected(TypeError), global |-> global]
         ELSE [promise |-> Fulfilled(FieldValueMapOf(answer.data.projects[1])),
               global |-> global]

(***************************************************************************)
(* searchUsers                                                             *)
(***************************************************************************)
searchUsersResume(answer) ==
    IF answer.ok THEN Fulfilled(answer.data) ELSE Rejected(answer.error)

(***************************************************************************)
(* The capability registry                                                 *)
(***************************************************************************)
NoFunction == "null"

resolveToolFunction(name) ==
    CASE name = "retrieveSimilarIssuesByEmbedding" -> "retrieveSimilarIssuesByEmbedding"
      [] name = "retrieveSimilarIssuesByTextSearch" -> "retrieveSimilarIssuesByTextSearch"
      [] name = "getJiraIssueByIdOrKey" -> "getJiraIssueByIdOrKey"
      [] name = "getSupportedValuesForFields" -> "getSupportedValuesForFields"
      [] name = "searchUsers" -> "searchUsers"
      [] name = "createJiraTicket" -> "createJiraTicket"
      [] name = "assignJiraTicket" -> "assignJiraTicket"
      [] OTHER -> NoFunction

\* The names the language model asks for: two registered capabilities and
\* one name that is in no registry.
RequestedNames == {"searchUsers", "getSupportedValuesForFields", "deleteJiraTicket"}

(***************************************************************************)
(* Messages, requests and responses of the language model                  *)
(***************************************************************************)
Message(role, text) ==
    [role |-> role, content |-> TextContent(text),
     tool_call_id |-> Undefined, tool_calls |-> <<>>]

SYSTEM_PROMPT == Message("system", "You are a helpful assistant integrated with JIRA.")

\* The dialogues handed to getChatResponse by its caller.
Dialogues ==
    {<<Message("user", "create a ticket for X")>>,
     <<Message("user", "who can take PROJ-1?"),
       Message("assistant", "Would you like to assign this to John?"),
       Message("user", "yes")>>}

\* The ids the language model gives to the calls of one response.
CallIds == <<"call_x7", "call_k2", "call_m9", "call_b4">>

\* All tool_calls arrays of at most MaxCalls calls.
ToolCallBatches ==
    UNION {{[i \in 1..n |-> [id |-> CallIds[i], name |-> choice[i][1],
                             arguments |-> choice[i][2]]] :
              choice \in [1..n -> RequestedNames \X ArgumentPayloads]} :
           n \in 0..MaxCalls}

NoResponse == [id |-> "none", content |-> Undefined, tool_calls |-> <<>>]

\* The first response: an answer, or a batch of calls.  An absent and an
\* empty tool_calls array are both the empty sequence.
FirstResponses ==
    {[id |-> "chatcmpl_1",
      content |-> IF Len(batch) = 0 THEN "direct answer" ELSE "null",
      tool_calls |-> batch] : batch \in ToolCallBatches}

FollowUpResponse == [id |-> "chatcmpl_2", content |-> "final answer", tool_calls |-> <<>>]

\* A first request without the system prompt.
InitialRequestDialogueOnly(msgs) ==
    [messages |-> msgs, tools |-> TRUE, tool_choice |-> "auto"]

\* openai.chat.completions.create of the first round trip.
InitialRequest(msgs) ==
    [messages |-> <<SYSTEM_PROMPT>> \o msgs, tools |-> TRUE, tool_choice |-> "auto"]

\* A follow-up request that passes the tool manifest again.
FollowUpRequestWithTools(msgs, calls, prompts) ==
    [messages |-> <<SYSTEM_PROMPT>> \o msgs
                  \o <<[role |-> "assistant", content |-> TextContent(Undefined),
                        tool_call_id |-> Undefined, tool_calls |-> calls]>>
                  \o prompts,
     tools |-> TRUE, tool_choice |-> "auto"]

\* openai.chat.completions.create of the second round trip: neither tools
\* nor tool_choice is passed.
FollowUpRequest(msgs, calls, prompts) ==
    [messages |-> <<SYSTEM_PROMPT>> \o msgs
                  \o <<[role |-> "assistant", content |-> TextContent(Undefined),
                        tool_call_id |-> Undefined, tool_calls |-> calls]>>
                  \o prompts,
     tools |-> FALSE, tool_choice |-> Undefined]

(***************************************************************************)
(* The fan-out: the callback of toolCalls.map                              *)
(***************************************************************************)
\* Calling a resolved capability: the promise it returns and whether it
\* issued a request to the issue tracker before returning.  Every capability
\* but getSupportedValuesForFields destructures its argument, so that called
\* with no argument it rejects with a TypeError before any request.
InvokeTool(toolFn, withArgs, global) ==
    IF toolFn = "getSupportedValuesForFields"
    THEN [promise |-> getSupportedValuesForFields(global).promise,
          backend |-> getSupportedValuesForFields(global).fetch]
    ELSE IF withArgs
         THEN [promise |-> Pending, backend |-> TRUE]
         ELSE [promise |-> Rejected(TypeError), backend |-> FALSE]

\* A callback that passes the parsed object to the capability whatever
\* its keys.
ToolCallbackPassesArgs(toolCall, global) ==
    LET toolFn == resolveToolFunction(toolCall.name)
        args == JSONParse(toolCall.arguments)
    IN  IF ~args.ok
        THEN [threw |-> TRUE, error |-> SyntaxError, invoked |-> FALSE,
              withArgs |-> FALSE, promise |-> Pending, backend |-> FALSE]
        ELSE IF toolFn # NoFunction
             THEN IF args.type = "null"
                  THEN [threw |-> TRUE, error |-> TypeError, invoked |-> FALSE,
                        withArgs |-> FALSE, promise |-> Pending, backend |-> FALSE]
                  ELSE [threw |-> FALSE, error |-> NoError, invoked |-> TRUE,
                        withArgs |-> TRUE,
                        promise |-> InvokeTool(toolFn, TRUE, global).promise,
                        backend |-> InvokeTool(toolFn, TRUE, global).backend]
             ELSE [threw |-> FALSE, error |-> NoError, invoked |-> FALSE,
                   withArgs |-> FALSE, promise |-> Fulfilled(NullValue), backend |-> FALSE]

\* One run of the callback: threw = TRUE when it throws (JSON.parse on an
\* unparsable payload, Object.keys on null), otherwise the promise it
\* returns; invoked tells whether toolFn was called.
ToolCallback(toolCall, global) ==
    LET toolFn == resolveToolFunction(toolCall.name)
        args == JSONParse(toolCall.arguments)
    IN  IF ~args.ok
        THEN [threw |-> TRUE, error |-> SyntaxError, invoked |-> FALSE,
              withArgs |-> FALSE, promise |-> Pending, backend |-> FALSE]
        ELSE IF toolFn # NoFunction
             THEN IF args.type = "null"
                  THEN [threw |-> TRUE, error |-> TypeError, invoked |-> FALSE,
                        withArgs |-> FALSE, promise |-> Pending, backend |-> FALSE]
                  ELSE [threw |-> FALSE, error |-> NoError, invoked |-> TRUE,
                        withArgs |-> Cardinality(args.fields) # 0,
                        promise |-> InvokeTool(toolFn, Cardinality(args.fields) # 0, global).promise,
                        backend |-> InvokeTool(toolFn, Cardinality(args.fields) # 0, global).backend]
             ELSE [threw |-> FALSE, error |-> NoError, invoked |-> FALSE,
                   withArgs |-> FALSE, promise |-> Fulfilled(NullValue), backend |-> FALSE]

\* Array.prototype.map runs the callback on the calls in order and stops at
\* the first one that throws: its index, 0 when none throws.
FirstThrow(calls, global) ==
    LET throwing == {i \in 1..Len(calls) : ToolCallback(calls[i], global).threw}
    IN  IF throwing = {} THEN 0
        ELSE CHOOSE i \in throwing : \A j \in throwing : i <= j

\* The indices whose callback ran to its return.
Completed(calls, global) ==
    IF FirstThrow(calls, global) = 0 THEN 1..Len(calls)
    ELSE 1..(FirstThrow(calls, global) - 1)

Indices(n) == [i \in 1..n |-> i]

(***************************************************************************)
(* The fan-in                                                              *)
(***************************************************************************)
\* Promise.all in place of Promise.allSettled: the first rejection resolves
\* the await.
AllFulfilledOrOneRejected(promises) ==
    \/ \A i \in 1..Len(promises) : promises[i].status = "fulfilled"
    \/ \E i \in 1..Len(promises) : promises[i].status = "rejected"

\* Promise.allSettled resolves once every promise of the array has settled.
AllSettled(promises) == \A i \in 1..Len(promises) : IsSettled(promises[i])

\* Results collected in the order in which the promises settled.
PromiseSettledInCompletionOrder(promises, order) ==
    [i \in 1..Len(promises) |-> promises[order[i]]]

\* Its result lists the outcomes in the order of the array, whatever the
\* order in which the promises settled.
PromiseAllSettled(promises, order) == [i \in 1..Len(promises) |-> promises[i]]

\* reason?.response.status throws a TypeError when the reason has no response.
ToolPromptThrows(toolResult) ==
    toolResult.status # "fulfilled" /\ ~toolResult.reason.hasResponse

ToolPrompt(toolResult, toolCall) ==
    [role |-> "tool",
     content |-> IF toolResult.status = "fulfilled"
                 THEN JSONStringify(toolResult.value)
                 ELSE JSONStringifyError(toolResult.reason),
     tool_call_id |-> toolCall.id,
     tool_calls |-> <<>>]

mapToolResultsToPrompts(results, calls) ==
    IF \E i \in 1..Len(results) : ToolPromptThrows(results[i])
    THEN [threw |-> TRUE, prompts |-> <<>>]
    ELSE [threw |-> FALSE,
          prompts |-> [i \in 1..Len(results) |-> ToolPrompt(results[i], calls[i])]]

\* A guard that takes every response for one with tool calls.
HasToolCallsAlways(response) == TRUE

\* if (!toolCalls?.length) return chatResponse;
HasToolCalls(response) == Len(response.tool_calls) # 0

(***************************************************************************)
(* State                                                                   *)
(***************************************************************************)
VARIABLES
    pc,                  \* where getChatResponse stands
    messages,            \* its parameter: the dialogue
    requests,            \* the requests sent to the language model, in order
    chatResponse,        \* the first response
    toolCalls,           \* chatResponse.choices[0].message.tool_calls
    toolPromises,        \* the array returned by toolCalls.map
    settleOrder,         \* the indices of toolPromises in the order they settled
    toolResults,         \* the result of Promise.allSettled
    toolPrompts,         \* the result of mapToolResultsToPrompts
    returned,            \* the response getChatResponse resolved with
    thrown,              \* the error getChatResponse rejected with
    invocations,         \* the calls of capability functions, in order
    backendRequests,     \* the requests sent to the issue tracker, in order
    fieldValueMapGlobal, \* the module-level cache of the _jira module
    upstreamFetches,     \* number of createmeta requests issued so far
    callerPc,            \* SpecCache: where each caller of the cache stands
    callerResult,        \* SpecCache: what each caller's call resolved with
    httpRequest,         \* SpecEvents: the webhook request being handled
    handlerPc,           \* SpecEvents: where POST stands
    httpResponse,        \* SpecEvents: the Response POST returned
    signatureChecked,    \* SpecEvents: isValidSlackRequest was called
    chatInvocations,     \* SpecEvents: the events passed to sendChatResponse
    chatPc,              \* SpecEvents: where sendChatResponse stands
    slackCalls,          \* SpecEvents: the calls of the Slack Web API, in order
    caught,              \* SpecEvents: the value caught by sendChatResponse
    history,             \* SpecEvents: the history sendChatResponse fetched
    posted,              \* SpecEvents: the messages the platform stored
    createArgs,          \* SpecCreate: the argument of createJiraTicket
    createPc,            \* SpecCreate: where createJiraTicket stands
    createResponse,      \* SpecCreate: the answer to the creation request
    createResult,        \* SpecCreate: the promise createJiraTicket returned
    assignPromise,       \* SpecCreate: the promise assignJiraTicket returned
    retrievalArgs,       \* SpecRetrieval: strategy, limit
    issueTable,          \* SpecRetrieval: the indexed issues that match
    retrievalPc,         \* SpecRetrieval: where the retrieval function stands
    retrievalResult,     \* SpecRetrieval: the promise it returned
    invPc,               \* SpecConcurrent: where each invocation stands
    invHistory,          \* SpecConcurrent: the history each invocation fetched
    invDialogue,         \* SpecConcurrent: each invocation's messages
    invResponse,         \* SpecConcurrent: each invocation's first response
    invPrompts,          \* SpecConcurrent: each invocation's tool messages
    invRequests,         \* SpecConcurrent: the requests each invocation sent
    invBackend           \* SpecConcurrent: its requests to the issue tracker

loopVars == <<pc, messages, requests, chatResponse, toolCalls, toolPromises,
              settleOrder, toolResults, toolPrompts, returned, thrown,
              invocations, backendRequests>>

callerVars == <<callerPc, callerResult>>

eventVars == <<httpRequest, handlerPc, httpResponse, signatureChecked,
               chatInvocations, chatPc, slackCalls, caught, history, posted>>

createVars == <<createArgs, createPc, createResponse, createResult, assignPromise>>

retrievalVars == <<retrievalArgs, issueTable, retrievalPc, retrievalResult>>

concVars == <<invPc, invHistory, invDialogue, invResponse, invPrompts, invRequests,
              invBackend>>

otherVars == <<eventVars, createVars, retrievalVars, concVars>>

vars == <<pc, messages, requests, chatResponse, toolCalls, toolPromises,
          settleOrder, toolResults, toolPrompts, returned, thrown,
          invocations, backendRequests, fieldValueMapGlobal, upstreamFetches,
          callerPc, callerResult, eventVars, createVars, retrievalVars, concVars>>

Callers == 1..NumCallers

NotThrown == [error |-> NoError, at |-> "none", call |-> 0]

InitLoop ==
    /\ pc = "start"
    /\ requests = <<>>
    /\ chatResponse = NoResponse
    /\ toolCalls = <<>>
    /\ toolPromises = <<>>
    /\ settleOrder = <<>>
    /\ toolResults = <<>>
    /\ toolPrompts = <<>>
    /\ returned = NoResponse
    /\ thrown = NotThrown
    /\ invocations = <<>>
    /\ backendRequests = <<>>

InitCallers ==
    /\ callerPc = [c \in Callers |-> "idle"]
    /\ callerResult = [c \in Callers |-> UndefinedValue]

\* let fieldValueMapGlobal: FieldValueMap | null = null;
InitGlobal ==
    /\ fieldValueMapGlobal = NullValue
    /\ upstreamFetches = 0

NoRequest == [kind |-> "none"]

\* No history has been fetched.
NoHistory == [ok |-> FALSE, hasMessages |-> FALSE, messages |-> <<>>, error |-> NoError]

NoResponseYet == [status |-> 0, body |-> Undefined, noRetry |-> FALSE]

NoCreateArgs == [kind |-> "none"]

NoRetrievalArgs == [kind |-> "none"]

\* No webhook request has arrived.
Invocations == 1..NumInvocations

InitConcurrentIdle ==
    /\ invPc = [v \in Invocations |-> "idle"]
    /\ invHistory = [v \in Invocations |-> NoHistory]
    /\ invDialogue = [v \in Invocations |-> <<>>]
    /\ invResponse = [v \in Invocations |-> NoResponse]
    /\ invPrompts = [v \in Invocations |-> <<>>]
    /\ invRequests = [v \in Invocations |-> <<>>]
    /\ invBackend = [v \in Invocations |-> <<>>]

InitEventsIdle ==
    /\ httpRequest = NoRequest
    /\ handlerPc = "idle"
    /\ httpResponse = NoResponseYet
    /\ signatureChecked = FALSE
    /\ chatInvocations = <<>>
    /\ chatPc = "idle"
    /\ slackCalls = <<>>
    /\ caught = NoError
    /\ history = NoHistory
    /\ posted = <<>>

\* createJiraTicket has not been called.
InitCreateIdle ==
    /\ createArgs = NoCreateArgs
    /\ createPc = "idle"
    /\ createResponse = NullValue
    /\ createResult = Pending
    /\ assignPromise = Pending

\* No retrieval function has been called.
InitRetrievalIdle ==
    /\ retrievalArgs = NoRetrievalArgs
    /\ issueTable = <<>>
    /\ retrievalPc = "idle"
    /\ retrievalResult = Pending

Init ==
    /\ messages \in Dialogues
    /\ InitLoop
    /\ InitGlobal
    /\ InitCallers
    /\ InitEventsIdle
    /\ InitCreateIdle
    /\ InitRetrievalIdle
    /\ InitConcurrentIdle

(***************************************************************************)
(* getChatResponse                                                         *)
(***************************************************************************)
\* From the call to the first await: the first request is sent with the
\* tool manifest and tool_choice "auto".
DispatchInitial ==
    /\ pc = "start"
    /\ requests' = Append(requests, InitialRequest(messages))
    /\ pc' = "awaitInitial"
    /\ UNCHANGED <<messages, chatResponse, toolCalls, toolPromises, settleOrder,
                   toolResults, toolPrompts, returned, thrown, invocations,
                   backendRequests, fieldValueMapGlobal, upstreamFetches,
                   callerVars, otherVars>>

\* The first response arrives.  Without tool calls it is returned.  With
\* tool calls toolCalls.map runs to its end or to the first callback that
\* throws, and getChatResponse then awaits Promise.allSettled or rejects.
InitialResponse(response) ==
    /\ pc = "awaitInitial"
    /\ chatResponse' = response
    /\ toolCalls' = response.tool_calls
    /\ IF ~HasToolCalls(response)
       THEN /\ pc' = "returned"
            /\ returned' = response
            /\ UNCHANGED <<toolPromises, settleOrder, thrown, invocations,
                           backendRequests, upstreamFetches>>
       ELSE LET calls == response.tool_calls
                global == fieldValueMapGlobal
                first == FirstThrow(calls, global)
                done == Completed(calls, global)
                callback(i) == ToolCallback(calls[i], global)
                ran == SelectSeq(Indices(Len(calls)), LAMBDA i : i \in done)
            IN  /\ invocations' = invocations \o
                     [k \in 1..Len(SelectSeq(ran, LAMBDA i : callback(i).invoked)) |->
                        LET i == SelectSeq(ran, LAMBDA j : callback(j).invoked)[k]
                        IN  [call |-> i, fn |-> resolveToolFunction(calls[i].name),
                             withArgs |-> callback(i).withArgs]]
                /\ backendRequests' = backendRequests \o
                     [k \in 1..Len(SelectSeq(ran, LAMBDA i : callback(i).backend)) |->
                        LET i == SelectSeq(ran, LAMBDA j : callback(j).backend)[k]
                        IN  [call |-> i, fn |-> resolveToolFunction(calls[i].name)]]
                /\ upstreamFetches' = upstreamFetches +
                     Cardinality({i \in done :
                         /\ callback(i).backend
                         /\ resolveToolFunction(calls[i].name) = "getSupportedValuesForFields"})
                /\ IF first # 0
                   THEN /\ pc' = "thrown"
                        /\ thrown' = [error |-> callback(first).error,
                                      at |-> "fanOut", call |-> first]
                        /\ UNCHANGED <<toolPromises, settleOrder>>
                   ELSE /\ pc' = "awaitTools"
                        /\ toolPromises' = [i \in 1..Len(calls) |-> callback(i).promise]
                        /\ settleOrder' = SelectSeq(Indices(Len(calls)),
                                             LAMBDA i : IsSettled(callback(i).promise))
                        /\ UNCHANGED thrown
                /\ UNCHANGED returned
    /\ UNCHANGED <<messages, requests, toolResults, toolPrompts,
                   fieldValueMapGlobal, callerVars, otherVars>>

\* The first request fails and is sent again.
InitialRequestRetried ==
    /\ pc = "awaitInitial"
    /\ Len(requests) < 3
    /\ requests' = Append(requests, InitialRequest(messages))
    /\ UNCHANGED <<pc, messages, chatResponse, toolCalls, toolPromises, settleOrder,
                   toolResults, toolPrompts, returned, thrown, invocations,
                   backendRequests, fieldValueMapGlobal, upstreamFetches,
                   callerVars, otherVars>>

\* The first request fails: the await throws and getChatResponse rejects.
InitialRequestFails ==
    /\ pc = "awaitInitial"
    /\ pc' = "thrown"
    /\ thrown' = [error |-> APIError, at |-> "model", call |-> 0]
    /\ UNCHANGED <<messages, requests, chatResponse, toolCalls, toolPromises,
                   settleOrder, toolResults, toolPrompts, returned, invocations,
                   backendRequests, fieldValueMapGlobal, upstreamFetches,
                   callerVars, otherVars>>

\* The answers the issue tracker can give to the request of a capability.
AnswersFor(toolFn) ==
    IF toolFn = "getSupportedValuesForFields" THEN CreateMetaAnswers
    ELSE UserSearchAnswers

\* The promise a pending capability settles with on an answer, and the
\* value of fieldValueMapGlobal it leaves.
ResumeTool(toolFn, answer, global) ==
    IF toolFn = "getSupportedValuesForFields"
    THEN getSupportedValuesForFieldsResume(answer, global)
    ELSE [promise |-> searchUsersResume(answer), global |-> global]

\* The issue tracker answers the request of the pending call i.
ToolSettles(i, answer) ==
    /\ pc = "awaitTools"
    /\ i \in 1..Len(toolPromises)
    /\ toolPromises[i].status = "pending"
    /\ answer \in AnswersFor(resolveToolFunction(toolCalls[i].name))
    /\ LET resumed == ResumeTool(resolveToolFunction(toolCalls[i].name), answer,
                                 fieldValueMapGlobal)
       IN  /\ toolPromises' = [toolPromises EXCEPT ![i] = resumed.promise]
           /\ fieldValueMapGlobal' = resumed.global
    /\ settleOrder' = Append(settleOrder, i)
    /\ UNCHANGED <<pc, messages, requests, chatResponse, toolCalls, toolResults,
                   toolPrompts, returned, thrown, invocations, backendRequests,
                   upstreamFetches, callerVars, otherVars>>

\* Promise.allSettled resolves: the results are mapped to tool messages and
\* the follow-up request is sent, or mapToolResultsToPrompts throws.
FanIn ==
    /\ pc = "awaitTools"
    /\ AllSettled(toolPromises)
    /\ LET results == PromiseAllSettled(toolPromises, settleOrder)
           mapped == mapToolResultsToPrompts(results, toolCalls)
       IN  /\ toolResults' = results
           /\ IF mapped.threw
              THEN /\ pc' = "thrown"
                   /\ thrown' = [error |-> TypeError, at |-> "fanIn", call |-> 0]
                   /\ UNCHANGED <<toolPrompts, requests>>
              ELSE /\ toolPrompts' = mapped.prompts
                   /\ requests' = Append(requests,
                                    FollowUpRequest(messages, toolCalls, mapped.prompts))
                   /\ pc' = "awaitFollowUp"
                   /\ UNCHANGED thrown
    /\ UNCHANGED <<messages, chatResponse, toolCalls, toolPromises, settleOrder,
                   returned, invocations, backendRequests, fieldValueMapGlobal,
                   upstreamFetches, callerVars, otherVars>>

\* A getChatResponse whose follow-up response asks for calls again and is
\* answered by a further round.
FollowUpArrivesWithCalls ==
    /\ pc = "awaitFollowUp"
    /\ pc' = "awaitTools"
    /\ UNCHANGED <<messages, requests, chatResponse, toolCalls, toolPromises,
                   settleOrder, toolResults, toolPrompts, returned, thrown, invocations,
                   backendRequests, fieldValueMapGlobal, upstreamFetches,
                   callerVars, otherVars>>

\* The follow-up response arrives and is returned.
FollowUpArrives ==
    /\ pc = "awaitFollowUp"
    /\ returned' = FollowUpResponse
    /\ pc' = "returned"
    /\ UNCHANGED <<messages, requests, chatResponse, toolCalls, toolPromises,
                   settleOrder, toolResults, toolPrompts, thrown, invocations,
                   backendRequests, fieldValueMapGlobal, upstreamFetches,
                   callerVars, otherVars>>

\* The follow-up request fails: getChatResponse rejects.
FollowUpRequestFails ==
    /\ pc = "awaitFollowUp"
    /\ pc' = "thrown"
    /\ thrown' = [error |-> APIError, at |-> "model", call |-> 0]
    /\ UNCHANGED <<messages, requests, chatResponse, toolCalls, toolPromises,
                   settleOrder, toolResults, toolPrompts, returned, invocations,
                   backendRequests, fieldValueMapGlobal, upstreamFetches,
                   callerVars, otherVars>>

Next ==
    \/ DispatchInitial
    \/ \E response \in FirstResponses : InitialResponse(response)
    \/ InitialRequestFails
    \/ \E i \in 1..MaxCalls, answer \in CreateMetaAnswers \cup UserSearchAnswers :
         ToolSettles(i, answer)
    \/ FanIn
    \/ FollowUpArrives
    \/ FollowUpRequestFails

Spec == Init /\ [][Next]_vars

(***************************************************************************)
(* Concurrent callers of the field-value cache                             *)
(***************************************************************************)
\* Caller c (the fan-out of some invocation) calls
\* getSupportedValuesForFields: it runs to the await of axios.get, or
\* returns the cached map.
CacheCall(c) ==
    /\ callerPc[c] = "idle"
    /\ LET started == getSupportedValuesForFields(fieldValueMapGlobal)
       IN  /\ callerResult' = [callerResult EXCEPT ![c] = started.promise]
           /\ callerPc' = [callerPc EXCEPT ![c] =
                             IF started.fetch THEN "fetching" ELSE "done"]
           /\ upstreamFetches' = upstreamFetches + (IF started.fetch THEN 1 ELSE 0)
    /\ UNCHANGED <<loopVars, fieldValueMapGlobal, otherVars>>

\* The issue tracker answers caller c's request and the call completes.
CacheAnswer(c, answer) ==
    /\ callerPc[c] = "fetching"
    /\ LET resumed == getSupportedValuesForFieldsResume(answer, fieldValueMapGlobal)
       IN  /\ callerResult' = [callerResult EXCEPT ![c] = resumed.promise]
           /\ fieldValueMapGlobal' = resumed.global
    /\ callerPc' = [callerPc EXCEPT ![c] = "done"]
    /\ UNCHANGED <<loopVars, upstreamFetches, otherVars>>

NextCache ==
    \/ \E c \in Callers : CacheCall(c)
    \/ \E c \in Callers, answer \in CreateMetaAnswers : CacheAnswer(c, answer)

SpecCache == Init /\ [][NextCache]_vars

(***************************************************************************)
(* Properties of the agent loop                                            *)
(***************************************************************************)
Unregistered(i) == resolveToolFunction(toolCalls[i].name) = NoFunction

Unparsable(i) == ~JSONParse(toolCalls[i].arguments).ok

WasInvoked(i) == \E k \in 1..Len(invocations) : invocations[k].call = i

SentBackendRequest(i) == \E k \in 1..Len(backendRequests) : backendRequests[k].call = i

\* A tool message whose content is an error descriptor.
IsFailurePrompt(prompt) == prompt.content.value.kind = "object"

\* C1: when the first response carries no capability calls, getChatResponse
\* has returned that very response after one model round trip and without
\* invoking any capability or sending any backend request.
C1_DirectAnswer ==
    (chatResponse # NoResponse /\ Len(chatResponse.tool_calls) = 0) =>
        /\ pc = "returned"
        /\ returned = chatResponse
        /\ Len(requests) = 1
        /\ invocations = <<>>
        /\ backendRequests = <<>>

C1_Witness ==
    /\ pc = "returned"
    /\ chatResponse.id = "chatcmpl_1"
    /\ Len(chatResponse.tool_calls) = 0
    /\ returned.content = "direct answer"

\* C2: once an invocation in which the model requested N >= 1 calls has
\* ended, there are exactly N tool results, the i-th tagged with the id of
\* the i-th call, however many of the calls failed.
C2_OneResultPerCall ==
    (pc \in {"returned", "thrown"} /\ Len(toolCalls) >= 1) =>
        /\ Len(toolPrompts) = Len(toolCalls)
        /\ \A i \in 1..Len(toolCalls) : toolPrompts[i].tool_call_id = toolCalls[i].id

\* C3: a call whose name is not registered sends no backend request, does
\* not make the fan-out throw, and its result is a failure result.
C3_UnregisteredIsFailure ==
    \A i \in 1..Len(toolCalls) :
        Unregistered(i) =>
            /\ ~SentBackendRequest(i)
            /\ ~(thrown.at = "fanOut" /\ thrown.call = i)
            /\ toolPrompts # <<>> => IsFailurePrompt(toolPrompts[i])

\* C4: a call whose argument payload does not parse is not invoked and is
\* not fatal: the invocation does not end by the fan-out throwing, and when
\* the follow-up request is sent the call's result is a failure result.
C4_ParseFailureNotFatal ==
    \A i \in 1..Len(toolCalls) :
        Unparsable(i) =>
            /\ ~WasInvoked(i)
            /\ thrown.at # "fanOut"
            /\ toolPrompts # <<>> => IsFailurePrompt(toolPrompts[i])

\* C5: once the fan-out has run, every call whose name resolves and whose
\* arguments parse has been invoked, and no failure of a call has discarded
\* the results of the batch.
C5_FailureIsolation ==
    pc \notin {"start", "awaitInitial"} =>
        /\ \A i \in 1..Len(toolCalls) :
             (~Unregistered(i) /\ ~Unparsable(i)) => WasInvoked(i)
        /\ thrown.at \notin {"fanOut", "fanIn"}

\* C6: whenever the loop is past the await of the fan-out (the follow-up
\* request has been sent, or the fan-in has thrown), every promise of the
\* fan-out has settled; no rejection lets the loop pass while a call is
\* pending.
C6_JoinBarrier ==
    /\ (Len(requests) = 2 \/ toolResults # <<>>) =>
          /\ Len(toolPromises) = Len(toolCalls)
          /\ \A i \in 1..Len(toolPromises) :
               toolPromises[i].status \in {"fulfilled", "rejected"}
    /\ (\E i \in 1..Len(toolPromises) : toolPromises[i].status = "pending") =>
          pc = "awaitTools"

\* A rejected call settled first, another call settled after it, and only
\* then was the follow-up request sent.
C6_Witness ==
    /\ Len(requests) = 2
    /\ Len(settleOrder) = 2
    /\ toolPromises[settleOrder[1]].status = "rejected"
    /\ SentBackendRequest(settleOrder[1])
    /\ SentBackendRequest(settleOrder[2])

\* C7: the follow-up request is the system prompt and the dialogue, then
\* one assistant message recording the calls, then one tool message per
\* call in the order of the calls: the i-th carries the i-th call's id and
\* the i-th call's outcome, whatever the order of completion.
C7_ToolMessagesInCallOrder ==
    Len(requests) = 2 =>
        LET sent == requests[2].messages
            base == 1 + Len(messages)
        IN  /\ Len(sent) = base + 1 + Len(toolCalls)
            /\ \A k \in 1..base : sent[k].role \notin {"tool"} /\ sent[k].tool_calls = <<>>
            /\ sent[base + 1].role = "assistant"
            /\ sent[base + 1].tool_calls = toolCalls
            /\ \A i \in 1..Len(toolCalls) :
                 /\ sent[base + 1 + i].role = "tool"
                 /\ sent[base + 1 + i].tool_call_id = toolCalls[i].id
                 /\ IF toolPromises[i].status = "fulfilled"
                    THEN sent[base + 1 + i].content.value = toolPromises[i].value
                    ELSE IsFailurePrompt(sent[base + 1 + i])

\* The second call completed before the first.
C7_Witness ==
    /\ Len(requests) = 2
    /\ Len(settleOrder) = 2
    /\ settleOrder = <<2, 1>>
    /\ toolPromises[1].status # toolPromises[2].status

\* C8: at most two requests are sent to the model; the second is sent
\* without the tool manifest; capabilities are invoked in one round only,
\* and none is invoked, and no backend request is sent, once the follow-up
\* request has been sent.
C8_OneRoundOfCapabilityUse ==
    /\ [](/\ Len(requests) <= 2
          /\ Len(requests) = 2 =>
               /\ ~requests[2].tools
               /\ requests[2].tool_choice = Undefined
               /\ requests[1].tools)
    /\ [][(Len(requests) = 2 \/ invocations # <<>>) =>
             /\ invocations' = invocations
             /\ backendRequests' = backendRequests]_vars

C8_Witness ==
    /\ pc = "returned"
    /\ Len(requests) = 2
    /\ invocations # <<>>
    /\ returned = FollowUpResponse

(***************************************************************************)
(* Properties of the field-value cache                                     *)
(***************************************************************************)
\* C9: callers that call concurrently while the cache is unpopulated share
\* one upstream fetch: at no time are two upstream fetches in flight.
C9_SingleFlight ==
    Cardinality({c \in Callers : callerPc[c] = "fetching"}) <= 1

\* C10: once a call of getSupportedValuesForFields has completed
\* successfully, no later call issues an upstream fetch.
C10_PopulatedOnce ==
    [][(\E c \in Callers : callerPc[c] = "done" /\ callerResult[c].status = "fulfilled")
          => upstreamFetches' = upstreamFetches]_vars

(***************************************************************************)
(* Webhook requests                                                        *)
(***************************************************************************)
\* The JavaScript null in a field whose other values are strings.
JsNull == "<null>"

\* A value interpolated in a template string.
Template(value) == IF value = JsNull THEN "null" ELSE value

\* process.env.SLACK_SIGNING_SECRET, and a key that is not the secret.
SIGNING_SECRET == "slack_signing_secret"
OtherKey == "some_other_key"

\* process.env.BOT_USER_ID
BOT_USER_ID == "U0BOT"

\* A digest that depends on the key alone.
HmacOfKey(key, base) == [key |-> key, base |-> <<>>]

\* crypto.createHmac("sha256", key).update(base).digest("hex"): two digests
\* are equal exactly when key and base are.
Hmac(key, base) == [key |-> key, base |-> base]

\* The value of an X-Slack-Signature header made with key over the
\* timestamp ts and the body text raw.
Sign(key, ts, raw) ==
    [present |-> TRUE, version |-> "v0", mac |-> Hmac(key, <<"v0", ts, raw>>)]

\* headers.get gives null for a header that is absent.
NoSignature == [present |-> FALSE, version |-> JsNull, mac |-> Hmac(JsNull, <<>>)]

\* The text of a mention of a user followed by a space, and plain words.
Mention(user) == <<"mention", user>>
Space == <<"space", " ">>
Word(w) == <<"word", w>>

\* A body text is a JSON value and its layout: the same value can be
\* written compactly, as JSON.stringify writes it, or with other spacing
\* or escapes.
BodyJSONParse(raw) == raw.value

BodyJSONStringify(body) == [value |-> body, layout |-> "compact"]

Layouts == {"compact", "spaced"}

SlackEvents ==
    [type : {"app_mention", "message"},
     bot_id : {Undefined, "B0BOT"},
     thread_ts : {Undefined, "100.1"},
     channel_type : {"channel", "im"},
     text : {<<Mention(BOT_USER_ID), Space, Word("create a ticket for X")>>,
             <<Word("hello")>>},
     ts : {"100.5"},
     channel : {"C1"}]

NoEvent ==
    [type |-> Undefined, bot_id |-> Undefined, thread_ts |-> Undefined,
     channel_type |-> Undefined, text |-> <<>>, ts |-> Undefined,
     channel |-> Undefined]

WebhookBodies ==
    {[type |-> "url_verification", challenge |-> "challenge_3eZbrw", event |-> NoEvent],
     [type |-> "app_rate_limited", challenge |-> Undefined, event |-> NoEvent]}
    \cup {[type |-> "event_callback", challenge |-> Undefined, event |-> e] :
            e \in SlackEvents}

\* The body a signature was made for when it was not made for the body of
\* the request.
OtherBody ==
    [type |-> "event_callback", challenge |-> Undefined,
     event |-> [type |-> "app_mention", bot_id |-> Undefined, thread_ts |-> Undefined,
                channel_type |-> "channel",
                text |-> <<Mention(BOT_USER_ID), Space, Word("summarize PROJ-1")>>,
                ts |-> "90.0", channel |-> "C1"]]

SlackTimestamp == "1700000000"

\* The signature headers a request with body text raw arrives with: none;
\* Slack's signature of this very text; Slack's signature of the compact
\* text of the same value; Slack's signature of another body; a signature
\* made with another key.
SignaturesFor(raw) ==
    {NoSignature,
     Sign(SIGNING_SECRET, SlackTimestamp, raw),
     Sign(SIGNING_SECRET, SlackTimestamp, BodyJSONStringify(raw.value)),
     Sign(SIGNING_SECRET, SlackTimestamp, BodyJSONStringify(OtherBody)),
     Sign(OtherKey, SlackTimestamp, raw)}

\* The two webhook endpoints of the repository.
Endpoints == {"events", "part_003"}

WebhookRequests ==
    UNION {{[endpoint |-> ep, rawBody |-> [value |-> b, layout |-> l],
             timestamp |-> t, signature |-> sig, retryNum |-> r] :
               sig \in SignaturesFor([value |-> b, layout |-> l]),
               ep \in Endpoints, t \in {JsNull, SlackTimestamp}, r \in {JsNull, "1"}} :
           b \in WebhookBodies, l \in Layouts}

(***************************************************************************)
(* isValidSlackRequest and the acceptance test of POST                     *)
(***************************************************************************)
isValidSlackRequestAlways(request, body) == TRUE

\* The signature is computed over the timestamp header and
\* JSON.stringify(body), body being the parsed request text.
isValidSlackRequest(request, body) ==
    LET base == <<"v0", Template(request.timestamp), BodyJSONStringify(body)>>
        computedSignature ==
            [present |-> TRUE, version |-> "v0", mac |-> Hmac(SIGNING_SECRET, base)]
    IN  computedSignature = request.signature

Includes(text, token) == \E k \in 1..Len(text) : text[k] = token

TruthyAlways(value) == TRUE

Truthy(value) == value \notin {Undefined, JsNull, ""}

\* An acceptance test that does not look at the author of a message.
SelectedToRespondAnyAuthor(event) ==
    \/ event.type = "app_mention"
    \/ /\ event.type = "message"
       /\ Truthy(event.thread_ts)
       /\ Includes(event.text, Mention(BOT_USER_ID))
    \/ /\ event.type = "message"
       /\ event.channel_type = "im"

\* Accept if the bot is mentioned in a channel, in a thread, or for all
\* direct messages.
SelectedToRespond(event) ==
    \/ event.type = "app_mention"
    \/ /\ event.type = "message"
       /\ ~Truthy(event.bot_id)
       /\ Truthy(event.thread_ts)
       /\ Includes(event.text, Mention(BOT_USER_ID))
    \/ /\ event.type = "message"
       /\ ~Truthy(event.bot_id)
       /\ event.channel_type = "im"

\* The test on the retry header: events.ts has none, the handler of
\* part_003 processes only first attempts.
FirstAttempt(request) ==
    request.endpoint = "events" \/ request.retryNum = JsNull

(***************************************************************************)
(* sendChatResponse                                                        *)
(***************************************************************************)
NoMessagesError == [code |-> Undefined, name |-> "Error",
                    message |-> "No messages found in thread",
                    hasResponse |-> FALSE, status |-> Undefined, data |-> Undefined]

SlackError == [code |-> "slack_webapi_platform_error", name |-> "Error",
               message |-> "An API error occurred: channel_not_found",
               hasResponse |-> FALSE, status |-> Undefined, data |-> Undefined]

\* A thrown value that is not an Error object (a string, a plain object).
NonErrorValue == [code |-> Undefined, name |-> Undefined, message |-> Undefined,
                  hasResponse |-> FALSE, status |-> Undefined, data |-> Undefined]

\* error instanceof Error
IsErrorInstance(error) == error.name # Undefined

\* What chat.postMessage resolves or rejects with.
PostAnswers ==
    {[ok |-> TRUE, error |-> NoError],
     [ok |-> FALSE, error |-> SlackError],
     [ok |-> FALSE, error |-> NonErrorValue]}

Reverse(seq) == [k \in 1..Len(seq) |-> seq[Len(seq) + 1 - k]]

\* String.prototype.replace with a string pattern of two tokens: the first
\* occurrence is removed.
RemoveFirst(text, first, second) ==
    LET found == {k \in 1..(Len(text) - 1) : text[k] = first /\ text[k + 1] = second}
    IN  IF found = {} THEN text
        ELSE LET k == CHOOSE m \in found : \A n \in found : m <= n
             IN  SubSeq(text, 1, k - 1) \o SubSeq(text, k + 2, Len(text))

\* A reconstruction that takes a thread without messages for an empty
\* dialogue.
generatePromptFromThreadLenient(response) ==
    IF ~response.hasMessages \/ Len(response.messages) = 0
    THEN [threw |-> FALSE, error |-> NoError, prompts |-> <<>>]
    ELSE [threw |-> FALSE, error |-> NoError,
          prompts |-> [k \in 1..Len(response.messages) |->
                         Message("user", response.messages[k].text)]]

\* generatePromptFromThread: threw = TRUE when it throws.
generatePromptFromThread(response) ==
    IF ~response.hasMessages
    THEN [threw |-> TRUE, error |-> NoMessagesError, prompts |-> <<>>]
    ELSE IF Len(response.messages) = 0
         THEN [threw |-> TRUE, error |-> TypeError, prompts |-> <<>>]
         ELSE LET msgs == response.messages
                  botID == IF Len(msgs[1].reply_users) > 0
                           THEN msgs[1].reply_users[1] ELSE Undefined
                  isBot(m) == Truthy(m.bot_id) /\ ~Truthy(m.client_msg_id)
              IN  [threw |-> FALSE, error |-> NoError,
                   prompts |-> [k \in 1..Len(msgs) |->
                       IF isBot(msgs[k])
                       THEN Message("assistant", msgs[k].text)
                       ELSE Message("user",
                                RemoveFirst(msgs[k].text, Mention(botID), Space))]]

\* The first call of the Slack Web API: the channel history for a message
\* outside a thread, the replies of the thread otherwise.
FetchHistoryCall(event) ==
    IF event.type = "message" /\ ~Truthy(event.thread_ts)
    THEN [method |-> "conversations.history", channel |-> event.channel,
          ts |-> event.ts, thread_ts |-> Undefined, text |-> <<>>]
    ELSE [method |-> "conversations.replies", channel |-> event.channel,
          ts |-> IF event.thread_ts # Undefined THEN event.thread_ts ELSE event.ts,
          thread_ts |-> Undefined, text |-> <<>>]

\* chat.postMessage of the answer: a new top-level message for a message
\* outside a thread, a reply under the inbound message otherwise.
PostAnswerCall(event, content) ==
    IF event.type = "message" /\ ~Truthy(event.thread_ts)
    THEN [method |-> "chat.postMessage", channel |-> event.channel,
          ts |-> Undefined, thread_ts |-> Undefined, text |-> <<Word(content)>>]
    ELSE [method |-> "chat.postMessage", channel |-> event.channel,
          ts |-> Undefined, thread_ts |-> event.ts, text |-> <<Word(content)>>]

\* chat.postMessage of the catch block.
PostErrorCall(event, error) ==
    [method |-> "chat.postMessage", channel |-> event.channel,
     ts |-> Undefined, thread_ts |-> event.ts,
     text |-> <<Word("Error: "), Word(error.message)>>]

\* The event sendChatResponse is working on.
CurrentEvent == chatInvocations[Len(chatInvocations)]

\* The catch block: an Error is reported in the thread of the inbound
\* message, any other thrown value is dropped.
Catch(error) ==
    /\ caught' = error
    /\ IF IsErrorInstance(error)
       THEN /\ slackCalls' = Append(slackCalls, PostErrorCall(CurrentEvent, error))
            /\ chatPc' = "awaitErrorPost"
       ELSE /\ chatPc' = "done"
            /\ UNCHANGED slackCalls

\* The outcomes of getChatResponse: the first response returned as is,
\* the follow-up response, or a rejection by a failed model request, by
\* the fan-out or by the fan-in.
ChatOutcomes ==
    {[ok |-> TRUE, response |-> [id |-> "chatcmpl_1", content |-> "direct answer",
                                tool_calls |-> <<>>], thrown |-> NotThrown],
     [ok |-> TRUE, response |-> FollowUpResponse, thrown |-> NotThrown],
     [ok |-> FALSE, response |-> NoResponse,
      thrown |-> [error |-> APIError, at |-> "model", call |-> 0]],
     [ok |-> FALSE, response |-> NoResponse,
      thrown |-> [error |-> SyntaxError, at |-> "fanOut", call |-> 1]],
     [ok |-> FALSE, response |-> NoResponse,
      thrown |-> [error |-> TypeError, at |-> "fanIn", call |-> 0]]}

loopRest == <<chatResponse, toolCalls, toolPromises, settleOrder, toolResults,
              toolPrompts, invocations, backendRequests>>

\* Number(process.env.MESSAGE_HISTORY_LIMIT ?? "8"), as configured.
MessageHistoryLimit == 2

\* The timestamps of the messages of a conversation in increasing order;
\* the last is the timestamp of the inbound message.
TsValues == <<"100.1", "100.2", "100.3", "100.4", "100.5">>

TsRank(ts) == CHOOSE k \in 1..Len(TsValues) : TsValues[k] = ts

\* reply_users of the first message: absent while nobody has replied, the
\* bot alone, or another user who replied before the bot did.
ReplyUsersChoices == {<<>>, <<BOT_USER_ID>>, <<"U0HUMAN", BOT_USER_ID>>}

\* The message the event is about, as the platform stores it.
InboundMessage(event) ==
    [text |-> event.text,
     user |-> IF Truthy(event.bot_id) THEN "U0OTHERBOT" ELSE "U0USER",
     bot_id |-> event.bot_id,
     client_msg_id |-> IF Truthy(event.bot_id) THEN Undefined ELSE "m9",
     ts |-> event.ts, reply_users |-> <<>>]

\* The k-th message of a conversation that has later messages: the user
\* and the bot take turns.
EarlierMessage(k, replyUsers) ==
    IF k % 2 = 0
    THEN [text |-> <<Word("Which priority?")>>, user |-> BOT_USER_ID,
          bot_id |-> "B0BOT", client_msg_id |-> Undefined,
          ts |-> TsValues[k], reply_users |-> <<>>]
    ELSE [text |-> IF k = 1
                   THEN <<Mention(BOT_USER_ID), Space, Word("create a ticket for X")>>
                   ELSE <<Word("ask"), Space, Mention(BOT_USER_ID), Space, Word("him")>>,
          user |-> "U0USER", bot_id |-> Undefined, client_msg_id |-> "m1",
          ts |-> TsValues[k],
          reply_users |-> IF k = 1 THEN replyUsers ELSE <<>>]

\* A stored conversation of n messages, oldest first, that ends with the
\* inbound message.
StoredConversation(event, n, replyUsers) ==
    [k \in 1..n |-> IF k = n THEN InboundMessage(event)
                    ELSE EarlierMessage(k, replyUsers)]

\* The conversations the platform can hold when the history is asked for:
\* the channel for conversations.history, the thread of the event for
\* conversations.replies, which is the inbound message alone when the
\* event is not in a thread.
ConversationsOf(call, event) ==
    IF call.method = "conversations.history"
    THEN {StoredConversation(event, n, r) :
            n \in 1..(MessageHistoryLimit + 1), r \in ReplyUsersChoices}
    ELSE IF Truthy(event.thread_ts)
         THEN {StoredConversation(event, n, r) :
                 n \in 2..(MessageHistoryLimit + 1), r \in ReplyUsersChoices}
         ELSE {<<InboundMessage(event)>>}

FirstN(seq, n) == SubSeq(seq, 1, IF n < Len(seq) THEN n ELSE Len(seq))

\* conversations.history gives the newest messages up to latest, newest
\* first; conversations.replies gives the messages of the thread from its
\* first message on; both give at most limit messages.
PlatformReturns(call, conversation) ==
    IF call.method = "conversations.history"
    THEN FirstN(Reverse(conversation), MessageHistoryLimit)
    ELSE FirstN(conversation, MessageHistoryLimit)

\* A response without messages, an empty list, an error, a thrown value
\* that is no Error.
FailedHistoryAnswers ==
    {[ok |-> TRUE, hasMessages |-> FALSE, messages |-> <<>>, error |-> NoError],
     [ok |-> TRUE, hasMessages |-> TRUE, messages |-> <<>>, error |-> NoError],
     [ok |-> FALSE, hasMessages |-> FALSE, messages |-> <<>>, error |-> SlackError],
     [ok |-> FALSE, hasMessages |-> FALSE, messages |-> <<>>, error |-> NonErrorValue]}

\* What the call resolves or rejects with.
HistoryAnswersFor(call, event) ==
    {[ok |-> TRUE, hasMessages |-> TRUE,
      messages |-> PlatformReturns(call, conversation), error |-> NoError] :
        conversation \in ConversationsOf(call, event)}
    \cup FailedHistoryAnswers

HistoryAnswers ==
    UNION {HistoryAnswersFor(FetchHistoryCall(event), event) : event \in SlackEvents}

\* The history arrives: on the history path it is reversed; the dialogue
\* is rebuilt and getChatResponse is called, which sends its first
\* request; or the catch block runs.
HistoryArrives(answer) ==
    /\ chatPc = "awaitHistory"
    /\ answer \in HistoryAnswersFor(slackCalls[Len(slackCalls)], CurrentEvent)
    /\ IF ~answer.ok
       THEN /\ Catch(answer.error)
            /\ UNCHANGED <<pc, messages, requests, history>>
       ELSE LET fetched ==
                    IF slackCalls[Len(slackCalls)].method = "conversations.history"
                    THEN [answer EXCEPT !.messages = Reverse(answer.messages)]
                    ELSE answer
                built == generatePromptFromThread(fetched)
            IN  /\ history' = fetched
                /\ IF built.threw
                   THEN /\ Catch(built.error)
                        /\ UNCHANGED <<pc, messages, requests>>
                   ELSE /\ messages' = built.prompts
                        /\ requests' = Append(requests, InitialRequest(built.prompts))
                        /\ pc' = "awaitInitial"
                        /\ chatPc' = "awaitChat"
                        /\ UNCHANGED <<slackCalls, caught>>
    /\ UNCHANGED <<returned, thrown, loopRest, fieldValueMapGlobal, upstreamFetches,
                   callerVars, concVars, httpRequest, handlerPc, httpResponse,
                   signatureChecked, chatInvocations, posted, createVars, retrievalVars>>

\* getChatResponse settles: its answer is posted, or the catch block runs.
ChatResponseSettles(outcome) ==
    /\ chatPc = "awaitChat"
    /\ outcome \in ChatOutcomes
    /\ IF outcome.ok
       THEN /\ pc' = "returned"
            /\ returned' = outcome.response
            /\ slackCalls' = Append(slackCalls,
                                PostAnswerCall(CurrentEvent, outcome.response.content))
            /\ chatPc' = "awaitPost"
            /\ UNCHANGED <<thrown, caught>>
       ELSE /\ pc' = "thrown"
            /\ thrown' = outcome.thrown
            /\ Catch(outcome.thrown.error)
            /\ UNCHANGED returned
    /\ UNCHANGED <<messages, requests, loopRest, fieldValueMapGlobal, upstreamFetches,
                   callerVars, concVars, httpRequest, handlerPc, httpResponse,
                   signatureChecked, chatInvocations, history, posted, createVars,
                   retrievalVars>>

\* A platform that stores the message of a call it rejects.
DeliverAlways(stored, call, answer) == Append(stored, call)

\* chat.postMessage as the platform sees it: the message of a call that
\* resolves is stored, that of a call the platform rejects is not.
Deliver(stored, call, answer) ==
    IF answer.ok THEN Append(stored, call) ELSE stored

\* chat.postMessage of the answer settles.
PostSettles(answer) ==
    /\ chatPc = "awaitPost"
    /\ answer \in PostAnswers
    /\ posted' = Deliver(posted, slackCalls[Len(slackCalls)], answer)
    /\ IF answer.ok
       THEN /\ chatPc' = "done"
            /\ UNCHANGED <<slackCalls, caught>>
       ELSE Catch(answer.error)
    /\ UNCHANGED <<loopVars, fieldValueMapGlobal, upstreamFetches,
                   callerVars, concVars, httpRequest, handlerPc, httpResponse,
                   signatureChecked, chatInvocations, history, createVars, retrievalVars>>

\* chat.postMessage of the catch block settles: a failure is not caught and
\* rejects sendChatResponse.
ErrorPostSettles(answer) ==
    /\ chatPc = "awaitErrorPost"
    /\ answer \in PostAnswers
    /\ chatPc' = IF answer.ok THEN "done" ELSE "rejected"
    /\ posted' = Deliver(posted, slackCalls[Len(slackCalls)], answer)
    /\ UNCHANGED <<loopVars, fieldValueMapGlobal, upstreamFetches,
                   callerVars, concVars, httpRequest, handlerPc, httpResponse,
                   signatureChecked, chatInvocations, slackCalls, caught, history,
                   createVars, retrievalVars>>

(***************************************************************************)
(* POST                                                                    *)
(***************************************************************************)
RespondOK(body, noRetry) == [status |-> 200, body |-> "OK", noRetry |-> noRetry]

Respond(body, noRetry) == [status |-> 200, body |-> body, noRetry |-> noRetry]

\* From the arrival of the request to the first await that waits: the
\* challenge is echoed, or the signature is checked and the event is
\* handed to sendChatResponse, which asks for the history, or "OK" is
\* returned.
POSTReceives ==
    /\ handlerPc = "received"
    /\ LET body == BodyJSONParse(httpRequest.rawBody)
       IN  IF body.type = "url_verification"
           THEN /\ httpResponse' = Respond(body.challenge, FALSE)
                /\ handlerPc' = "responded"
                /\ UNCHANGED <<signatureChecked, chatInvocations, chatPc, slackCalls>>
           ELSE /\ signatureChecked' = TRUE
                /\ IF /\ isValidSlackRequest(httpRequest, body)
                      /\ body.type = "event_callback"
                      /\ FirstAttempt(httpRequest)
                      /\ SelectedToRespond(body.event)
                   THEN /\ chatInvocations' = Append(chatInvocations, body.event)
                        /\ slackCalls' = Append(slackCalls, FetchHistoryCall(body.event))
                        /\ chatPc' = "awaitHistory"
                        /\ handlerPc' = "awaitChat"
                        /\ UNCHANGED httpResponse
                   ELSE /\ httpResponse' = Respond("OK", TRUE)
                        /\ handlerPc' = "responded"
                        /\ UNCHANGED <<chatInvocations, chatPc, slackCalls>>
    /\ UNCHANGED <<loopVars, fieldValueMapGlobal, upstreamFetches, callerVars, concVars,
                   httpRequest, caught, history, posted, createVars, retrievalVars>>

\* A handler that does not await sendChatResponse.
POSTResumesEarly ==
    /\ handlerPc = "awaitChat"
    /\ httpResponse' = Respond("Success!", TRUE)
    /\ handlerPc' = "responded"
    /\ UNCHANGED <<loopVars, fieldValueMapGlobal, upstreamFetches, callerVars, concVars,
                   httpRequest, signatureChecked, chatInvocations, chatPc, history,
                   posted, slackCalls, caught, createVars, retrievalVars>>

\* sendChatResponse has settled: "Success!" is returned, or its rejection
\* propagates out of POST.
POSTResumes ==
    /\ handlerPc = "awaitChat"
    /\ chatPc \in {"done", "rejected"}
    /\ IF chatPc = "done"
       THEN /\ httpResponse' = Respond("Success!", TRUE)
            /\ handlerPc' = "responded"
       ELSE /\ httpResponse' = [status |-> 500, body |-> Undefined, noRetry |-> FALSE]
            /\ handlerPc' = "threw"
    /\ UNCHANGED <<loopVars, fieldValueMapGlobal, upstreamFetches, callerVars, concVars,
                   httpRequest, signatureChecked, chatInvocations, chatPc, history,
                   posted, slackCalls, caught, createVars, retrievalVars>>

InitEvents ==
    /\ httpRequest \in WebhookRequests
    /\ handlerPc = "received"
    /\ httpResponse = NoResponseYet
    /\ signatureChecked = FALSE
    /\ chatInvocations = <<>>
    /\ chatPc = "idle"
    /\ slackCalls = <<>>
    /\ caught = NoError
    /\ history = NoHistory
    /\ posted = <<>>
    /\ messages = <<>>
    /\ InitLoop
    /\ InitGlobal
    /\ InitCallers
    /\ InitCreateIdle
    /\ InitRetrievalIdle
    /\ InitConcurrentIdle

NextEvents ==
    \/ POSTReceives
    \/ \E answer \in HistoryAnswers : HistoryArrives(answer)
    \/ \E outcome \in ChatOutcomes : ChatResponseSettles(outcome)
    \/ \E answer \in PostAnswers : PostSettles(answer)
    \/ \E answer \in PostAnswers : ErrorPostSettles(answer)
    \/ POSTResumes

SpecEvents == InitEvents /\ [][NextEvents]_vars

(***************************************************************************)
(* Properties of the webhook handler                                       *)
(***************************************************************************)
\* The body texts a signature can have been made for.
RawBodies == [value : WebhookBodies \cup {OtherBody}, layout : Layouts]

\* The parsed body of the request in hand.
RequestBody == BodyJSONParse(httpRequest.rawBody)

\* The signature the handler computes for the request in hand.
ExpectedSignature ==
    [present |-> TRUE, version |-> "v0",
     mac |-> Hmac(SIGNING_SECRET,
                  <<"v0", Template(httpRequest.timestamp),
                    BodyJSONStringify(RequestBody)>>)]

\* Nothing was done for the request: no event handed to sendChatResponse,
\* no request to the model, the issue tracker or the chat platform.
NothingProcessed ==
    /\ chatInvocations = <<>>
    /\ requests = <<>>
    /\ backendRequests = <<>>
    /\ slackCalls = <<>>

\* C11: a request that carries the retry-count header is not handed to
\* sendChatResponse.
C11_RetryNotReprocessed ==
    (handlerPc # "idle" /\ httpRequest.retryNum # JsNull)
        => chatInvocations = <<>>

\* C12: when the signature header is the platform's signature of a body
\* text other than the one received, the check of the signature fails.
C12_TamperedBodyFails ==
    (handlerPc # "idle" /\ signatureChecked)
        => \A signed \in RawBodies :
              (/\ signed # httpRequest.rawBody
               /\ httpRequest.signature
                    = Sign(SIGNING_SECRET, httpRequest.timestamp, signed))
                 => ~isValidSlackRequest(httpRequest, RequestBody)

\* C13: a request other than a url_verification whose signature is not the
\* computed one is answered 200 "OK" and nothing is processed for it.
C13_UnauthenticNotProcessed ==
    (/\ handlerPc \notin {"idle", "received"}
     /\ RequestBody.type # "url_verification"
     /\ httpRequest.signature # ExpectedSignature)
        => /\ handlerPc = "responded"
           /\ httpResponse.status = 200
           /\ httpResponse.body = "OK"
           /\ NothingProcessed

C13_Witness ==
    /\ handlerPc = "responded"
    /\ RequestBody.type = "event_callback"
    /\ RequestBody.event.type = "app_mention"
    /\ httpRequest.retryNum = JsNull
    /\ httpRequest.signature = Sign(OtherKey, SlackTimestamp, httpRequest.rawBody)
    /\ httpRequest.timestamp = SlackTimestamp
    /\ httpResponse.body = "OK"
    /\ NothingProcessed

\* C14: a url_verification request is answered 200 with its challenge, the
\* signature is not checked and nothing is processed for it.
C14_ChallengeEchoed ==
    (/\ handlerPc \notin {"idle", "received"}
     /\ RequestBody.type = "url_verification")
        => /\ handlerPc = "responded"
           /\ httpResponse.status = 200
           /\ httpResponse.body = RequestBody.challenge
           /\ ~signatureChecked
           /\ NothingProcessed

C14_Witness ==
    /\ handlerPc = "responded"
    /\ RequestBody.type = "url_verification"
    /\ httpRequest.signature = NoSignature
    /\ httpResponse.body = "challenge_3eZbrw"
    /\ ~signatureChecked

\* C16: an invocation of sendChatResponse in which something was thrown
\* ends with the error message posted in the thread of the event.
C16_EveryErrorReported ==
    (chatPc \in {"done", "rejected"} /\ caught # NoError)
        => /\ chatPc = "done"
           /\ \E k \in 1..Len(slackCalls) :
                 slackCalls[k] = PostErrorCall(CurrentEvent, caught)

\* C17: the answer is posted at top level when the event is not in a
\* thread and in the thread of the event when it is in one.
C17_ReplyMirrorsThreading ==
    \A k \in 1..Len(slackCalls) :
        (/\ slackCalls[k].method = "chat.postMessage"
         /\ slackCalls[k].text[1] # Word("Error: "))
            => slackCalls[k].thread_ts = CurrentEvent.thread_ts

(***************************************************************************)
(* createJiraTicket and assignJiraTicket                                   *)
(***************************************************************************)
\* process.env.JIRA_BASE_URL
JIRA_BASE_URL == "https://jira.example"

\* The arguments the model supplies: a priority the createmeta answers
\* contain or one they do not, with or without an assignee.
CreateArguments ==
    [kind : {"createArgs"},
     issueType : {"Task", "Bug"},
     priority : {"Medium", "High", "Urgent-P0"},
     summary : {"X is broken"},
     description : {"details of X"},
     brand : {"acme"},
     component : {"na"},
     environment : {"prod"},
     assigneeId : {Undefined, "", "acc123"}]

\* The body of POST /rest/api/3/issue.
CreateIssueRequest(args) ==
    [call |-> 0, fn |-> "createJiraTicket", method |-> "POST",
     issuetype |-> args.issueType, summary |-> args.summary,
     description |-> args.description, brand |-> args.brand,
     component |-> args.component, priority |-> args.priority,
     environment |-> args.environment]

\* The body of PUT /rest/api/3/issue/{idOrKey}/assignee.
AssignRequest(idOrKey, accountId) ==
    [call |-> 0, fn |-> "assignJiraTicket", method |-> "PUT",
     idOrKey |-> idOrKey, accountId |-> accountId]

\* What the creation request resolves or rejects with.
CreateAnswers ==
    {[ok |-> TRUE, key |-> "PROJ-101", error |-> NoError],
     [ok |-> TRUE, key |-> "PROJ-102", error |-> NoError],
     [ok |-> FALSE, key |-> Undefined, error |-> AxiosHttpError],
     [ok |-> FALSE, key |-> Undefined, error |-> AxiosNetworkError]}

\* What the assignment request resolves or rejects with.
AssignAnswers ==
    {[ok |-> TRUE, status |-> "204", error |-> NoError],
     [ok |-> FALSE, status |-> Undefined, error |-> AxiosHttpError],
     [ok |-> FALSE, status |-> Undefined, error |-> AxiosNetworkError],
     [ok |-> FALSE, status |-> Undefined, error |-> NonErrorValue]}

\* assignJiraTicket once axios.put has settled.
assignJiraTicket(answer) ==
    IF answer.ok
    THEN Fulfilled([kind |-> "assigned", status |-> answer.status])
    ELSE Rejected(answer.error)

\* The catch block around the assignment.
ErrorDescriptor(err) ==
    [kind |-> "errorDescriptor", code |-> err.code, name |-> err.name,
     message |-> err.message, status |-> err.status, body |-> err.data]

TicketResult(key, assignResponse) ==
    [kind |-> "ticket", ticketId |-> key,
     url |-> <<JIRA_BASE_URL, "/browse/", key>>,
     assignResponse |-> assignResponse]

AfterAssignUncaught(key, promise) ==
    IF promise.status = "rejected"
    THEN Rejected(promise.reason)
    ELSE Fulfilled(TicketResult(key, promise.value))

\* The promise of createJiraTicket once the assignment has settled.
AfterAssign(key, promise) ==
    IF promise.status = "rejected"
    THEN Fulfilled(TicketResult(key, ErrorDescriptor(promise.reason)))
    ELSE Fulfilled(TicketResult(key, promise.value))

\* createJiraTicket is called: the creation request is sent.
CreateCall ==
    /\ createPc = "called"
    /\ backendRequests' = Append(backendRequests, CreateIssueRequest(createArgs))
    /\ createPc' = "awaitCreate"
    /\ UNCHANGED <<pc, messages, requests, chatResponse, toolCalls, toolPromises,
                   settleOrder, toolResults, toolPrompts, returned, thrown,
                   invocations, fieldValueMapGlobal, upstreamFetches, callerVars, concVars,
                   eventVars, createArgs, createResponse, createResult,
                   assignPromise, retrievalVars>>

\* The creation request settles: a failure rejects createJiraTicket; after
\* a success the assignment request is sent when an assignee was given,
\* and the result is returned otherwise.
CreateSettles(answer) ==
    /\ createPc = "awaitCreate"
    /\ answer \in CreateAnswers
    /\ IF ~answer.ok
       THEN /\ createResult' = Rejected(answer.error)
            /\ createPc' = "done"
            /\ UNCHANGED <<createResponse, backendRequests>>
       ELSE /\ createResponse' = [kind |-> "issue", key |-> answer.key]
            /\ IF Truthy(createArgs.assigneeId)
               THEN /\ backendRequests' = Append(backendRequests,
                           AssignRequest(answer.key, createArgs.assigneeId))
                    /\ createPc' = "awaitAssign"
                    /\ UNCHANGED createResult
               ELSE /\ createResult' = Fulfilled(TicketResult(answer.key, NullValue))
                    /\ createPc' = "done"
                    /\ UNCHANGED backendRequests
    /\ UNCHANGED <<pc, messages, requests, chatResponse, toolCalls, toolPromises,
                   settleOrder, toolResults, toolPrompts, returned, thrown,
                   invocations, fieldValueMapGlobal, upstreamFetches, callerVars, concVars,
                   eventVars, createArgs, assignPromise, retrievalVars>>

\* The assignment request settles and createJiraTicket returns.
AssignSettles(answer) ==
    /\ createPc = "awaitAssign"
    /\ answer \in AssignAnswers
    /\ assignPromise' = assignJiraTicket(answer)
    /\ createResult' = AfterAssign(createResponse.key, assignJiraTicket(answer))
    /\ createPc' = "done"
    /\ UNCHANGED <<loopVars, fieldValueMapGlobal, upstreamFetches, callerVars, concVars,
                   eventVars, createArgs, createResponse, retrievalVars>>

InitCreate ==
    /\ messages = <<>>
    /\ InitLoop
    /\ InitGlobal
    /\ InitCallers
    /\ InitEventsIdle
    /\ InitRetrievalIdle
    /\ InitConcurrentIdle
    /\ createArgs \in CreateArguments
    /\ createPc = "called"
    /\ createResponse = NullValue
    /\ createResult = Pending
    /\ assignPromise = Pending

NextCreate ==
    \/ CreateCall
    \/ \E answer \in CreateAnswers : CreateSettles(answer)
    \/ \E answer \in AssignAnswers : AssignSettles(answer)

SpecCreate == InitCreate /\ [][NextCreate]_vars

\* C15: when the creation succeeded and the assignment failed,
\* createJiraTicket is fulfilled with the key and the URL of the issue and
\* with the description of the assignment error.
C15_AssignFailureNotMasked ==
    (createPc = "done" /\ assignPromise.status = "rejected")
        => /\ createResult.status = "fulfilled"
           /\ createResult.value.ticketId = createResponse.key
           /\ createResult.value.url = <<JIRA_BASE_URL, "/browse/", createResponse.key>>
           /\ createResult.value.assignResponse.kind = "errorDescriptor"
           /\ createResult.value.assignResponse.message = assignPromise.reason.message
           /\ createResult.value.assignResponse.status = assignPromise.reason.status

C15_Witness ==
    /\ createPc = "done"
    /\ createArgs.assigneeId = "acc123"
    /\ assignPromise = Rejected(AxiosHttpError)
    /\ createResponse.key = "PROJ-101"
    /\ createResult.status = "fulfilled"
    /\ createResult.value.assignResponse.status = "400"

\* The priorities the createmeta answers contain, by name and by id.
ValidatedPriorities ==
    UNION {{FieldValueMapOf(meta.projects[1]).priority[k].name :
              k \in 1..Len(FieldValueMapOf(meta.projects[1]).priority)}
           \cup {FieldValueMapOf(meta.projects[1]).priority[k].id :
                   k \in 1..Len(FieldValueMapOf(meta.projects[1]).priority)} :
           meta \in {CreateMetaA, CreateMetaB}}

\* C18: no creation request with a priority that no validation result
\* contains is sent to the issue tracker.
C18_NoFabricatedPriority ==
    \A k \in 1..Len(backendRequests) :
        backendRequests[k].fn = "createJiraTicket"
            => backendRequests[k].priority \in ValidatedPriorities

(***************************************************************************)
(* retrieveSimilarIssuesByEmbedding and retrieveSimilarIssuesByTextSearch  *)
(***************************************************************************)
\* The largest number of stored issues.
MaxRows == 6

\* Scores and distances are counted in tenths: Unit is 1.0, and the floor
\* of the query is 0.5.
Unit == 10

RelevanceFloor == 5

\* The default of the parameter limit.
DefaultLimit == 5

\* The value of the column source the query asks for.
Source == "jira"

\* The cosine distances of the stored embeddings to the embedding of the
\* text: similarity 0.8, 0.6 and 0.5.
Distances == {2, 4, 5}

\* The stored issues in storage order, which is also the order
\* "created DESC" of the text search.
IssueTables ==
    UNION {[1..n -> [distance : Distances, source : {Source}]] : n \in 0..MaxRows}

\* The argument of a retrieval: limit is absent or a number.
RetrievalArguments ==
    [kind : {"retrievalArgs"},
     strategy : {"embedding", "textSearch"},
     textToSearch : {"login fails"},
     hasLimit : BOOLEAN,
     limit : {2, MaxRows}]

EffectiveLimitPlusOne(args) ==
    IF args.hasLimit THEN args.limit + 1 ELSE DefaultLimit + 1

\* The destructuring default: limit = 5 when the argument has none.
EffectiveLimit(args) ==
    IF args.hasLimit THEN args.limit ELSE DefaultLimit

\* 1 - (embedding <=> $1) as similarity
Similarity(row) == Unit - row.distance

AtOrAboveFloor(row) == row.source = Source /\ Similarity(row) >= RelevanceFloor

\* where source = $2 and 1 - (embedding <=> $1) > 0.5
AboveFloor(row) == row.source = Source /\ Similarity(row) > RelevanceFloor

\* order by embedding <=> $1: rows of equal distance keep their order.
InsertByDistance(row, sorted) ==
    LET k == Cardinality({j \in 1..Len(sorted) : sorted[j].distance <= row.distance})
    IN  SubSeq(sorted, 1, k) \o <<row>> \o SubSeq(sorted, k + 1, Len(sorted))

RECURSIVE OrderByDistance(_)
OrderByDistance(rows) ==
    IF rows = <<>> THEN <<>>
    ELSE InsertByDistance(rows[Len(rows)],
                          OrderByDistance(SubSeq(rows, 1, Len(rows) - 1)))

\* limit $3, and maxResults of the search.
Take(rows, limit) ==
    SubSeq(rows, 1, IF limit < Len(rows) THEN limit ELSE Len(rows))

\* The rows the query returns, with their position in the table as id.
SelectSimilar(table, limit) ==
    LET rows == [k \in 1..Len(table) |->
                   [id |-> k, distance |-> table[k].distance,
                    source |-> table[k].source,
                    similarity |-> Similarity(table[k])]]
    IN  Take(OrderByDistance(SelectSeq(rows, AboveFloor)), limit)

\* result.rows.map
MapRows(rows) ==
    [k \in 1..Len(rows) |->
       [content |-> rows[k].id, metadata |-> rows[k].id,
        similarity |-> rows[k].similarity]]

\* The issues the search returns, and res.data.issues.map.
SearchIssues(table, maxResults) ==
    Take([k \in 1..Len(table) |-> [id |-> k, key |-> k]], maxResults)

MapIssues(issues) ==
    [k \in 1..Len(issues) |->
       [id |-> issues[k].id, key |-> issues[k].key,
        url |-> <<JIRA_BASE_URL, "/browse/", issues[k].key>>]]

\* The retrieval is called: the embedding of the text is asked for, or the
\* search request is sent.
RetrievalCall ==
    /\ retrievalPc = "called"
    /\ IF retrievalArgs.strategy = "embedding"
       THEN /\ retrievalPc' = "awaitEmbedding"
            /\ UNCHANGED backendRequests
       ELSE /\ backendRequests' = Append(backendRequests,
                   [call |-> 0, fn |-> "retrieveSimilarIssuesByTextSearch",
                    limit |-> EffectiveLimit(retrievalArgs)])
            /\ retrievalPc' = "awaitSearch"
    /\ UNCHANGED <<pc, messages, requests, chatResponse, toolCalls, toolPromises,
                   settleOrder, toolResults, toolPrompts, returned, thrown,
                   invocations, fieldValueMapGlobal, upstreamFetches, callerVars, concVars,
                   eventVars, createVars, retrievalArgs, issueTable, retrievalResult>>

\* getEmbedding settles: the query is sent, or the catch block logs the
\* error and the function returns undefined.
EmbeddingSettles(ok) ==
    /\ retrievalPc = "awaitEmbedding"
    /\ IF ok
       THEN /\ backendRequests' = Append(backendRequests,
                   [call |-> 0, fn |-> "retrieveSimilarIssuesByEmbedding",
                    limit |-> EffectiveLimit(retrievalArgs)])
            /\ retrievalPc' = "awaitQuery"
            /\ UNCHANGED retrievalResult
       ELSE /\ retrievalResult' = Fulfilled(UndefinedValue)
            /\ retrievalPc' = "done"
            /\ UNCHANGED backendRequests
    /\ UNCHANGED <<pc, messages, requests, chatResponse, toolCalls, toolPromises,
                   settleOrder, toolResults, toolPrompts, returned, thrown,
                   invocations, fieldValueMapGlobal, upstreamFetches, callerVars, concVars,
                   eventVars, createVars, retrievalArgs, issueTable>>

\* pool.query settles: the rows are mapped and returned, or the catch
\* block logs the error and the function returns undefined.
QuerySettles(ok) ==
    /\ retrievalPc = "awaitQuery"
    /\ retrievalResult' =
          IF ok
          THEN Fulfilled([kind |-> "records",
                          records |-> MapRows(SelectSimilar(issueTable,
                                        backendRequests[Len(backendRequests)].limit))])
          ELSE Fulfilled(UndefinedValue)
    /\ retrievalPc' = "done"
    /\ UNCHANGED <<loopVars, fieldValueMapGlobal, upstreamFetches, callerVars, concVars,
                   eventVars, createVars, retrievalArgs, issueTable>>

\* axios.get of the search settles: the issues are mapped and returned, or
\* the rejection leaves the function.
SearchSettles(ok) ==
    /\ retrievalPc = "awaitSearch"
    /\ retrievalResult' =
          IF ok
          THEN Fulfilled([kind |-> "similarTickets",
                          records |-> MapIssues(SearchIssues(issueTable,
                                        backendRequests[Len(backendRequests)].limit))])
          ELSE Rejected(AxiosHttpError)
    /\ retrievalPc' = "done"
    /\ UNCHANGED <<loopVars, fieldValueMapGlobal, upstreamFetches, callerVars, concVars,
                   eventVars, createVars, retrievalArgs, issueTable>>

InitRetrieval ==
    /\ messages = <<>>
    /\ InitLoop
    /\ InitGlobal
    /\ InitCallers
    /\ InitEventsIdle
    /\ InitCreateIdle
    /\ InitConcurrentIdle
    /\ retrievalArgs \in RetrievalArguments
    /\ issueTable \in IssueTables
    /\ retrievalPc = "called"
    /\ retrievalResult = Pending

NextRetrieval ==
    \/ RetrievalCall
    \/ \E ok \in BOOLEAN : EmbeddingSettles(ok)
    \/ \E ok \in BOOLEAN : QuerySettles(ok)
    \/ \E ok \in BOOLEAN : SearchSettles(ok)

SpecRetrieval == InitRetrieval /\ [][NextRetrieval]_vars

\* The records of a retrieval that has returned some.
ReturnedRecords ==
    IF /\ retrievalPc = "done"
       /\ retrievalResult.status = "fulfilled"
       /\ retrievalResult.value.kind \in {"records", "similarTickets"}
    THEN retrievalResult.value.records
    ELSE <<>>

\* C19: every record the semantic retrieval returns has a score above 0.5,
\* and no record is followed by one of a higher score.
C19_AboveFloorDescending ==
    (retrievalPc = "done" /\ retrievalArgs.strategy = "embedding")
        => /\ \A k \in 1..Len(ReturnedRecords) :
                 ReturnedRecords[k].similarity > RelevanceFloor
           /\ \A j, k \in 1..Len(ReturnedRecords) :
                 j < k => ReturnedRecords[j].similarity >= ReturnedRecords[k].similarity

C19_Witness ==
    /\ retrievalPc = "done"
    /\ retrievalArgs.strategy = "embedding"
    /\ Len(issueTable) = 3
    /\ issueTable[1].distance = 5
    /\ issueTable[2].distance = 4
    /\ issueTable[3].distance = 2
    /\ Len(ReturnedRecords) = 2
    /\ ReturnedRecords[1].similarity > ReturnedRecords[2].similarity

\* C20: a retrieval asks the store for no more records than the limit of
\* its argument, or 5 when the argument has none, and returns no more.
C20_AtMostLimit ==
    LET expected == IF retrievalArgs.hasLimit THEN retrievalArgs.limit
                    ELSE DefaultLimit
    IN  retrievalPc # "idle"
            => /\ \A k \in 1..Len(backendRequests) :
                     backendRequests[k].limit = expected
               /\ Len(ReturnedRecords) <= expected

C20_Witness ==
    /\ retrievalPc = "done"
    /\ ~retrievalArgs.hasLimit
    /\ Len(issueTable) = MaxRows
    /\ \A k \in 1..Len(issueTable) : issueTable[k].distance = 2
    /\ Len(ReturnedRecords) = DefaultLimit

\* Whether an assignment request has been sent.
AssignmentRequested ==
    \E k \in 1..Len(backendRequests) : backendRequests[k].fn = "assignJiraTicket"

\* C30: the assignment request is sent exactly when an assignee id was
\* given and the creation succeeded; without an assignee id the result
\* carries a null assignResponse, and a failed creation rejects the call.
C30_AssignIffSuppliedAndCreated ==
    LET supplied == createArgs.assigneeId \notin {Undefined, ""}
        created == createResponse # NullValue
    IN  createPc \in {"awaitAssign", "done"}
            => /\ AssignmentRequested <=> (supplied /\ created)
               /\ (createPc = "done" /\ created /\ ~supplied)
                     => /\ createResult.status = "fulfilled"
                        /\ createResult.value.assignResponse = NullValue
               /\ (createPc = "done" /\ ~created)
                     => createResult.status = "rejected"

C30_Witness ==
    /\ createPc = "done"
    /\ createArgs.assigneeId = Undefined
    /\ createResponse # NullValue
    /\ ~AssignmentRequested
    /\ createResult.status = "fulfilled"
    /\ createResult.value.assignResponse = NullValue

\* The retrieval ended on a failure of the embedding provider, of the
\* similarity index or of the search: it returned no list of records.
RetrievalFailed ==
    /\ retrievalPc = "done"
    /\ ~(/\ retrievalResult.status = "fulfilled"
         /\ retrievalResult.value.kind \in {"records", "similarTickets"})

\* The call of the language model the retrieval was made for.
RetrievalToolCall ==
    [id |-> CallIds[1],
     name |-> IF retrievalArgs.strategy = "embedding"
              THEN "retrieveSimilarIssuesByEmbedding"
              ELSE "retrieveSimilarIssuesByTextSearch",
     arguments |-> QueryPayload]

\* C21: when the upstream request of a retrieval fails, the tool message
\* made of the retrieval's outcome is an error descriptor.
C21_UpstreamFailureIsFailureResult ==
    RetrievalFailed
        => /\ retrievalResult.status = "rejected"
           /\ ~ToolPromptThrows(retrievalResult)
           /\ IsFailurePrompt(ToolPrompt(retrievalResult, RetrievalToolCall))

\* C22: when a call was rejected with an error that has no HTTP response,
\* the results are still mapped to tool messages and the follow-up
\* request is sent.
C22_RejectionWithoutResponseIsMapped ==
    (/\ toolResults # <<>>
     /\ \E i \in 1..Len(toolResults) :
           /\ toolResults[i].status = "rejected"
           /\ ~toolResults[i].reason.hasResponse)
        => /\ thrown = NotThrown
           /\ Len(toolPrompts) = Len(toolResults)
           /\ Len(requests) = 2

\* The number of entries of a log made for call i.
EntriesFor(log, i) == Cardinality({k \in 1..Len(log) : log[k].call = i})

\* C25: each call of the batch is invoked at most once and sends at most
\* one backend request; backend requests are sent by the fan-out only, so
\* none follows an answer; no request to the model is sent twice, and
\* nothing is sent once the invocation has failed.
C25_NothingRetried ==
    /\ [](/\ \A i \in 1..Len(toolCalls) :
               /\ EntriesFor(invocations, i) <= 1
               /\ EntriesFor(backendRequests, i) <= 1
          /\ Len(requests) <= 2
          /\ Len(requests) = 2 => requests[1] # requests[2])
    /\ [][/\ backendRequests' # backendRequests => pc = "awaitInitial"
          /\ invocations' # invocations => pc = "awaitInitial"
          /\ pc = "thrown" => /\ requests' = requests
                              /\ invocations' = invocations
                              /\ backendRequests' = backendRequests]_vars

\* The backend request of the first call failed; the invocation ended
\* with one invocation and one backend request for that call.
C25_Witness ==
    /\ pc = "returned"
    /\ Len(toolCalls) = 2
    /\ toolPromises[1] = Rejected(AxiosHttpError)
    /\ EntriesFor(invocations, 1) = 1
    /\ EntriesFor(backendRequests, 1) = 1
    /\ Len(requests) = 2

\* C26: the first request carries the system prompt and the dialogue; the
\* follow-up request carries the messages of the first one, then the
\* assistant message recording the calls, then the tool messages; the
\* dialogue handed in is never changed.
C26_FollowUpExtendsInitial ==
    /\ [](/\ Len(requests) >= 1 => requests[1].messages = <<SYSTEM_PROMPT>> \o messages
          /\ Len(requests) = 2 =>
               LET first == requests[1].messages
                   second == requests[2].messages
               IN  /\ Len(second) = Len(first) + 1 + Len(toolPrompts)
                   /\ SubSeq(second, 1, Len(first)) = first
                   /\ second[Len(first) + 1].role = "assistant"
                   /\ second[Len(first) + 1].tool_calls = toolCalls
                   /\ SubSeq(second, Len(first) + 2, Len(second)) = toolPrompts)
    /\ [][messages' = messages]_vars

C26_Witness ==
    /\ Len(requests) = 2
    /\ Len(messages) = 3
    /\ Len(toolPrompts) = 2

\* C29: while a call of the fan-out is pending the loop stays at the await
\* of the fan-in: no follow-up request is sent and nothing is returned,
\* whatever the other calls have done.
C29_PendingCallBlocks ==
    /\ []((\E i \in 1..Len(toolPromises) : toolPromises[i].status = "pending")
            => /\ Len(requests) = 1
               /\ returned = NoResponse
               /\ thrown = NotThrown)
    /\ [][(\E i \in 1..Len(toolPromises) :
              /\ toolPromises[i].status = "pending"
              /\ toolPromises'[i].status = "pending")
            => /\ pc' = pc
               /\ requests' = requests
               /\ returned' = returned]_vars

\* The first call was rejected while the second is still pending.
C29_Witness ==
    /\ pc = "awaitTools"
    /\ Len(toolPromises) = 2
    /\ settleOrder = <<1>>
    /\ toolPromises[1].status = "rejected"
    /\ toolPromises[2].status = "pending"

(***************************************************************************)
(* Properties of the reconstruction of the dialogue                        *)
(***************************************************************************)
\* sendChatResponse has fetched a history with at least one message and
\* has rebuilt the dialogue from it.
DialogueRebuilt ==
    /\ chatPc \notin {"idle", "awaitHistory"}
    /\ history.ok
    /\ history.hasMessages
    /\ Len(history.messages) > 0
    /\ Len(requests) > 0

\* The text of a message without a mention of the bot at its start.
WithoutLeadingMention(text) ==
    IF Len(text) >= 1 /\ text[1] = Mention(BOT_USER_ID)
    THEN IF Len(text) >= 2 /\ text[2] = Space
         THEN SubSeq(text, 3, Len(text))
         ELSE SubSeq(text, 2, Len(text))
    ELSE text

\* C23: the dialogue has one message per message of the thread, in the
\* same order: assistant with the text unchanged when the bot account wrote
\* it, user with the leading mention of the bot removed otherwise.
C23_DialogueMirrorsThread ==
    DialogueRebuilt
        => /\ Len(messages) = Len(history.messages)
           /\ \A k \in 1..Len(messages) :
                 messages[k] =
                    IF history.messages[k].user = BOT_USER_ID
                    THEN Message("assistant", history.messages[k].text)
                    ELSE Message("user", WithoutLeadingMention(history.messages[k].text))

\* C24: when the fetched history has no message list or an empty one, the
\* reconstruction throws, the error is caught by sendChatResponse, and
\* getChatResponse is not called: no request to the model, no capability
\* invoked, no backend request.
C24_EmptyThreadIsFatal ==
    (/\ chatPc \notin {"idle", "awaitHistory"}
     /\ history.ok
     /\ (~history.hasMessages \/ Len(history.messages) = 0))
        => /\ caught \in {NoMessagesError, TypeError}
           /\ chatPc \in {"awaitErrorPost", "done", "rejected"}
           /\ pc = "start"
           /\ requests = <<>>
           /\ invocations = <<>>
           /\ backendRequests = <<>>

C24_Witness ==
    /\ chatPc = "done"
    /\ history.ok
    /\ ~history.hasMessages
    /\ caught = NoMessagesError
    /\ slackCalls[Len(slackCalls)] = PostErrorCall(CurrentEvent, NoMessagesError)
    /\ requests = <<>>

\* C27: the history the dialogue is rebuilt from is ordered oldest first
\* and its last message is the inbound message.
C27_OldestFirstInboundLast ==
    DialogueRebuilt
        => /\ \A j, k \in 1..Len(history.messages) :
                 j < k => TsRank(history.messages[j].ts) < TsRank(history.messages[k].ts)
           /\ history.messages[Len(history.messages)].ts = CurrentEvent.ts

(***************************************************************************)
(* Invocations of sendChatResponse that run at once                        *)
(***************************************************************************)
\* The events of the invocations: a direct message, and a mention in a
\* thread.
ConcurrentEvents ==
    {[type |-> "message", bot_id |-> Undefined, thread_ts |-> Undefined,
      channel_type |-> "im", text |-> <<Word("hello")>>, ts |-> "100.5",
      channel |-> "C1"],
     [type |-> "app_mention", bot_id |-> Undefined, thread_ts |-> "100.1",
      channel_type |-> "channel",
      text |-> <<Mention(BOT_USER_ID), Space, Word("create a ticket for X")>>,
      ts |-> "100.5", channel |-> "C1"]}

\* The histories the invocations fetch, oldest first.
ConcurrentHistories ==
    {[ok |-> TRUE, hasMessages |-> TRUE,
      messages |-> StoredConversation(event, n, <<BOT_USER_ID>>), error |-> NoError] :
        event \in ConcurrentEvents, n \in 1..MessageHistoryLimit}

\* The arguments of a creation call as the language model writes them.
CreatePayload ==
    <<"{", "summary", ":", "X is broken", ",", "priority", ":", "Medium", "}">>

\* The first responses: an answer, a search for users, or the creation of
\* a ticket.
ConcurrentResponses ==
    {[id |-> "chatcmpl_1", content |-> "direct answer", tool_calls |-> <<>>],
     [id |-> "chatcmpl_1", content |-> "null",
      tool_calls |-> <<[id |-> CallIds[1], name |-> "searchUsers",
                        arguments |-> QueryPayload]>>],
     [id |-> "chatcmpl_1", content |-> "null",
      tool_calls |-> <<[id |-> CallIds[1], name |-> "createJiraTicket",
                        arguments |-> CreatePayload]>>]}

\* The property key of a parsed argument object: undefined when absent.
Field(fields, key) ==
    IF \E p \in fields : p[1] = key
    THEN (CHOOSE p \in fields : p[1] = key)[2]
    ELSE Undefined

\* The parameter of createJiraTicket, destructured from the parsed
\* arguments.
CreateArgumentsOf(fields) ==
    [kind |-> "createArgs",
     issueType |-> Field(fields, "issueType"),
     priority |-> Field(fields, "priority"),
     summary |-> Field(fields, "summary"),
     description |-> Field(fields, "description"),
     brand |-> Field(fields, "brand"),
     component |-> Field(fields, "component"),
     environment |-> Field(fields, "environment"),
     assigneeId |-> Field(fields, "assigneeId")]

\* The request a capability called with arguments sends to the issue
\* tracker before its first await.
BackendRequestOf(toolCall) ==
    IF resolveToolFunction(toolCall.name) = "createJiraTicket"
    THEN CreateIssueRequest(CreateArgumentsOf(JSONParse(toolCall.arguments).fields))
    ELSE [call |-> 0, fn |-> resolveToolFunction(toolCall.name), method |-> "GET"]

\* A creation request that is sent only when no invocation has sent the
\* same request before.
SendBackendRequestOnce(backend, v, request) ==
    IF \E w \in DOMAIN backend : \E k \in 1..Len(backend[w]) : backend[w][k] = request
    THEN backend
    ELSE [backend EXCEPT ![v] = Append(@, request)]

\* axios.post / axios.get of a capability: the request is sent whatever
\* was sent before.
SendBackendRequest(backend, v, request) ==
    [backend EXCEPT ![v] = Append(@, request)]

\* The issue tracker gives every issue it creates a key of its own.
TicketKeys == <<"PROJ-101", "PROJ-102", "PROJ-103", "PROJ-104">>

\* The outcomes of the call of invocation v.
ConcurrentToolResults(toolCall, v) ==
    IF resolveToolFunction(toolCall.name) = "createJiraTicket"
    THEN {Fulfilled(TicketResult(TicketKeys[v], NullValue)), Rejected(AxiosHttpError)}
    ELSE {Fulfilled(UsersValue), Rejected(AxiosHttpError)}

AllConcurrentToolResults ==
    UNION {ConcurrentToolResults(response.tool_calls[1], v) :
             response \in {r \in ConcurrentResponses : HasToolCalls(r)},
             v \in Invocations}

\* One variable for the dialogue of every invocation.
StoreDialogueShared(dialogues, v, prompts) == [w \in DOMAIN dialogues |-> prompts]

\* prompts and messages are locals of the invocation: const prompts of
\* sendChatResponse, the parameter messages of getChatResponse.
StoreDialogue(dialogues, v, prompts) == [dialogues EXCEPT ![v] = prompts]

\* sendChatResponse is called for an event and asks for the history.
InvStart(v) ==
    /\ invPc[v] = "idle"
    /\ invPc' = [invPc EXCEPT ![v] = "awaitHistory"]
    /\ UNCHANGED <<loopVars, fieldValueMapGlobal, upstreamFetches, callerVars,
                   eventVars, createVars, retrievalVars, invHistory, invDialogue,
                   invResponse, invPrompts, invRequests, invBackend>>

\* The history of invocation v arrives: the dialogue is rebuilt and the
\* first request is sent.
InvHistoryArrives(v, fetched) ==
    /\ invPc[v] = "awaitHistory"
    /\ fetched \in ConcurrentHistories
    /\ invHistory' = [invHistory EXCEPT ![v] = fetched]
    /\ invDialogue' = StoreDialogue(invDialogue, v,
                                    generatePromptFromThread(fetched).prompts)
    /\ invRequests' = [invRequests EXCEPT ![v] =
                         <<InitialRequest(invDialogue'[v])>>]
    /\ invPc' = [invPc EXCEPT ![v] = "awaitInitial"]
    /\ UNCHANGED <<loopVars, fieldValueMapGlobal, upstreamFetches, callerVars,
                   eventVars, createVars, retrievalVars, invResponse, invPrompts,
                   invBackend>>

\* The first response of invocation v arrives: it is returned, or the
\* call is made, which sends the capability's request.
InvInitialResponse(v, response) ==
    /\ invPc[v] = "awaitInitial"
    /\ response \in ConcurrentResponses
    /\ invResponse' = [invResponse EXCEPT ![v] = response]
    /\ invPc' = [invPc EXCEPT ![v] =
                    IF HasToolCalls(response) THEN "awaitTools" ELSE "returned"]
    /\ invBackend' =
          IF /\ HasToolCalls(response)
             /\ ToolCallback(response.tool_calls[1], fieldValueMapGlobal).backend
          THEN SendBackendRequest(invBackend, v, BackendRequestOf(response.tool_calls[1]))
          ELSE invBackend
    /\ UNCHANGED <<loopVars, fieldValueMapGlobal, upstreamFetches, callerVars,
                   eventVars, createVars, retrievalVars, invHistory, invDialogue,
                   invPrompts, invRequests>>

\* The call of invocation v settles and the follow-up request is sent.
InvFanIn(v, result) ==
    /\ invPc[v] = "awaitTools"
    /\ result \in ConcurrentToolResults(invResponse[v].tool_calls[1], v)
    /\ LET mapped == mapToolResultsToPrompts(<<result>>, invResponse[v].tool_calls)
       IN  /\ invPrompts' = [invPrompts EXCEPT ![v] = mapped.prompts]
           /\ invRequests' = [invRequests EXCEPT ![v] =
                                Append(invRequests[v],
                                       FollowUpRequest(invDialogue[v],
                                                       invResponse[v].tool_calls,
                                                       mapped.prompts))]
    /\ invPc' = [invPc EXCEPT ![v] = "awaitFollowUp"]
    /\ UNCHANGED <<loopVars, fieldValueMapGlobal, upstreamFetches, callerVars,
                   eventVars, createVars, retrievalVars, invHistory, invDialogue,
                   invResponse, invBackend>>

\* The follow-up response of invocation v arrives.
InvFollowUpArrives(v) ==
    /\ invPc[v] = "awaitFollowUp"
    /\ invPc' = [invPc EXCEPT ![v] = "returned"]
    /\ UNCHANGED <<loopVars, fieldValueMapGlobal, upstreamFetches, callerVars,
                   eventVars, createVars, retrievalVars, invHistory, invDialogue,
                   invResponse, invPrompts, invRequests, invBackend>>

InitConcurrent ==
    /\ messages = <<>>
    /\ InitLoop
    /\ InitGlobal
    /\ InitCallers
    /\ InitEventsIdle
    /\ InitCreateIdle
    /\ InitRetrievalIdle
    /\ InitConcurrentIdle

NextConcurrent ==
    \/ \E v \in Invocations : InvStart(v)
    \/ \E v \in Invocations, fetched \in ConcurrentHistories : InvHistoryArrives(v, fetched)
    \/ \E v \in Invocations, response \in ConcurrentResponses :
         InvInitialResponse(v, response)
    \/ \E v \in Invocations, result \in AllConcurrentToolResults : InvFanIn(v, result)
    \/ \E v \in Invocations : InvFollowUpArrives(v)

SpecConcurrent == InitConcurrent /\ [][NextConcurrent]_vars

\* C28: the dialogue of an invocation and the requests it has sent are
\* those rebuilt from its own history, and no step of another invocation
\* changes them.
C28_NoSharedDialogue ==
    /\ [](\A v \in Invocations :
            invPc[v] \notin {"idle", "awaitHistory"} =>
               LET own == generatePromptFromThread(invHistory[v]).prompts
               IN  /\ invDialogue[v] = own
                   /\ invRequests[v][1] = InitialRequest(own)
                   /\ Len(invRequests[v]) = 2 =>
                        invRequests[v][2] =
                           FollowUpRequest(own, invResponse[v].tool_calls, invPrompts[v]))
    /\ [][\A v \in Invocations :
            invPc'[v] = invPc[v] =>
               /\ invDialogue'[v] = invDialogue[v]
               /\ invRequests'[v] = invRequests[v]]_vars

\* Two invocations with different dialogues are in flight at once, one
\* waiting for its follow-up response, the other for its call.
C28_Witness ==
    /\ invPc[1] = "awaitFollowUp"
    /\ invPc[2] = "awaitTools"
    /\ invDialogue[1] # invDialogue[2]
    /\ Len(invDialogue[1]) = 2
    /\ Len(invRequests[1]) = 2

\* The creation call of invocation v's first response.
RequestsCreation(v) ==
    /\ HasToolCalls(invResponse[v])
    /\ invResponse[v].tool_calls[1].name = "createJiraTicket"

\* C31: every invocation in which the model asks for the creation of a
\* ticket sends the creation request, whatever the other invocations have
\* sent: the fan-out step sends it also when an invocation with the same
\* dialogue has sent the same request before.
C31_NotIdempotent ==
    /\ [](\A v \in Invocations :
            (invPc[v] \in {"awaitTools", "awaitFollowUp", "returned"}
             /\ RequestsCreation(v))
               => invBackend[v] =
                    <<CreateIssueRequest(CreateArgumentsOf(
                        JSONParse(invResponse[v].tool_calls[1].arguments).fields))>>)
    /\ [][\A v \in Invocations :
            (invPc[v] = "awaitInitial" /\ invPc'[v] = "awaitTools"
             /\ invResponse'[v].tool_calls[1].name = "createJiraTicket")
               => Len(invBackend'[v]) = Len(invBackend[v]) + 1]_vars

\* Two invocations with the same dialogue have each sent the same creation
\* request and each been answered with a ticket of its own.
C31_Witness ==
    /\ invPc[1] = "returned"
    /\ invPc[2] = "returned"
    /\ invDialogue[1] = invDialogue[2]
    /\ RequestsCreation(1)
    /\ RequestsCreation(2)
    /\ invBackend[1] = invBackend[2]
    /\ Len(invBackend[1]) = 1
    /\ invBackend[1][1].fn = "createJiraTicket"
    /\ invPrompts[1][1].content.value.ticketId = "PROJ-101"
    /\ invPrompts[2][1].content.value.ticketId = "PROJ-102"

(***************************************************************************)
(* Further properties of the webhook handler and of sendChatResponse       *)
(***************************************************************************)
\* The text of the event mentions the bot.
MentionsBot(event) ==
    \E k \in 1..Len(event.text) : event.text[k] = <<"mention", BOT_USER_ID>>

\* C32: sendChatResponse is invoked only for an event callback whose event
\* is an app mention, a message without bot id that is in a thread and
\* mentions the bot, or a message without bot id in a direct-message
\* channel; a message event that carries a bot id is never handed to it.
C32_OnlySelectedEventsProcessed ==
    /\ chatInvocations # <<>> =>
          /\ RequestBody.type = "event_callback"
          /\ chatInvocations = <<RequestBody.event>>
          /\ \/ RequestBody.event.type = "app_mention"
             \/ /\ RequestBody.event.type = "message"
                /\ RequestBody.event.bot_id = Undefined
                /\ RequestBody.event.thread_ts # Undefined
                /\ MentionsBot(RequestBody.event)
             \/ /\ RequestBody.event.type = "message"
                /\ RequestBody.event.bot_id = Undefined
                /\ RequestBody.event.channel_type = "im"
    /\ (/\ handlerPc # "idle"
        /\ RequestBody.type = "event_callback"
        /\ RequestBody.event.type = "message"
        /\ RequestBody.event.bot_id # Undefined)
          => NothingProcessed

\* A message of a user that mentions the bot in a thread of a channel
\* has been handed to sendChatResponse.
C32_Witness ==
    /\ chatInvocations # <<>>
    /\ CurrentEvent.type = "message"
    /\ CurrentEvent.bot_id = Undefined
    /\ CurrentEvent.thread_ts = "100.1"
    /\ CurrentEvent.channel_type = "channel"
    /\ MentionsBot(CurrentEvent)
    /\ handlerPc = "responded"

\* A message of the catch block, as against an answer.
IsErrorMessage(call) ==
    call.method = "chat.postMessage" /\ call.text[1] = <<"word", "Error: ">>

IsAnswerMessage(call) ==
    call.method = "chat.postMessage" /\ call.text[1] # <<"word", "Error: ">>

\* C33: the platform stores at most one message for an event; when
\* nothing was thrown it is the answer and no error message was sent;
\* when something was thrown no answer is stored.
C33_AtMostOneOutcomeMessage ==
    /\ Len(posted) <= 1
    /\ (chatPc = "done" /\ caught = NoError)
          => /\ Len(posted) = 1
             /\ IsAnswerMessage(posted[1])
             /\ posted[1].text = <<Word(returned.content)>>
             /\ \A k \in 1..Len(slackCalls) : ~IsErrorMessage(slackCalls[k])
    /\ caught # NoError
          => \A k \in 1..Len(posted) : IsErrorMessage(posted[k])

\* The post of the answer was rejected and the error message was posted
\* in its place: two calls of chat.postMessage, one message stored.
C33_Witness ==
    /\ chatPc = "done"
    /\ Len(slackCalls) = 3
    /\ IsAnswerMessage(slackCalls[2])
    /\ IsErrorMessage(slackCalls[3])
    /\ posted = <<slackCalls[3]>>

EmptyArguments(i) ==
    /\ JSONParse(toolCalls[i].arguments).ok
    /\ JSONParse(toolCalls[i].arguments).type = "object"
    /\ JSONParse(toolCalls[i].arguments).fields = {}

\* The capability of call i destructures its parameter.
RequiresArguments(i) ==
    resolveToolFunction(toolCalls[i].name)
        \notin {NoFunction, "getSupportedValuesForFields"}

\* C37: a capability is invoked with the parsed object exactly when the
\* object has a key and with no argument when it has none; a capability
\* that needs arguments and got an empty object sends no request, is not
\* what the fan-out throws at, and its promise is rejected.
C37_EmptyArgumentsRejectOwnCall ==
    /\ \A k \in 1..Len(invocations) :
          /\ invocations[k].fn = resolveToolFunction(toolCalls[invocations[k].call].name)
          /\ invocations[k].fn # NoFunction
          /\ invocations[k].withArgs = ~EmptyArguments(invocations[k].call)
    /\ \A i \in 1..Len(toolCalls) :
          (EmptyArguments(i) /\ RequiresArguments(i))
             => /\ ~(thrown.at = "fanOut" /\ thrown.call = i)
                /\ \A k \in 1..Len(backendRequests) : backendRequests[k].call # i
                /\ toolPromises # <<>> =>
                      /\ toolPromises[i].status = "rejected"
                      /\ toolPromises[i].reason = TypeError

\* searchUsers was called twice by one fan-out: with no argument for the
\* empty object, and its promise is rejected, and with the parsed object
\* for the other call, which waits for the issue tracker.
C37_Witness ==
    /\ pc = "awaitTools"
    /\ Len(toolCalls) = 2
    /\ toolCalls[1].name = "searchUsers"
    /\ toolCalls[1].arguments = EmptyObjectPayload
    /\ toolCalls[2].name = "searchUsers"
    /\ toolCalls[2].arguments = QueryPayload
    /\ invocations = <<[call |-> 1, fn |-> "searchUsers", withArgs |-> FALSE],
                       [call |-> 2, fn |-> "searchUsers", withArgs |-> TRUE]>>
    /\ toolPromises[1] = Rejected(TypeError)
    /\ toolPromises[2] = Pending

\* C36: a request other than a url_verification that arrives without the
\* signature header or without the timestamp header is answered "OK"
\* and nothing is processed for it.
C36_MissingHeaderNotProcessed ==
    (/\ handlerPc \notin {"idle", "received"}
     /\ RequestBody.type # "url_verification"
     /\ \/ ~httpRequest.signature.present
        \/ httpRequest.timestamp = JsNull)
        => /\ signatureChecked
           /\ handlerPc = "responded"
           /\ httpResponse.body = "OK"
           /\ NothingProcessed

\* The request of a mention that carries the platform's signature of its
\* text and no timestamp header was answered "OK".
C36_Witness ==
    /\ handlerPc = "responded"
    /\ RequestBody.type = "event_callback"
    /\ RequestBody.event.type = "app_mention"
    /\ httpRequest.retryNum = JsNull
    /\ httpRequest.rawBody.layout = "compact"
    /\ httpRequest.timestamp = JsNull
    /\ httpRequest.signature = Sign(SIGNING_SECRET, SlackTimestamp, httpRequest.rawBody)
    /\ httpResponse.body = "OK"
    /\ NothingProcessed

(***************************************************************************)
(* sendChatResponse with the steps of getChatResponse                      *)
(***************************************************************************)
\* Requests of the platform that the handler of events.ts accepts: signed
\* with the secret over the compact text, a first attempt, the event of a
\* user that mentions the bot.
AcceptedRequests ==
    {r \in WebhookRequests :
        /\ r.endpoint = "events"
        /\ r.rawBody.layout = "compact"
        /\ r.retryNum = JsNull
        /\ r.timestamp = SlackTimestamp
        /\ r.signature = Sign(SIGNING_SECRET, SlackTimestamp, r.rawBody)
        /\ r.rawBody.value.type = "event_callback"
        /\ r.rawBody.value.event.bot_id = Undefined
        /\ Includes(r.rawBody.value.event.text, Mention(BOT_USER_ID))
        /\ SelectedToRespond(r.rawBody.value.event)}

\* The calls of the first responses: one that waits for the issue
\* tracker, one whose payload does not parse, one of no registered name.
ChatCallChoices ==
    {<<"searchUsers", QueryPayload>>,
     <<"searchUsers", TruncatedPayload>>,
     <<"deleteJiraTicket", EmptyObjectPayload>>}

ChatFirstResponses ==
    {response \in FirstResponses :
        \A i \in 1..Len(response.tool_calls) :
            <<response.tool_calls[i].name, response.tool_calls[i].arguments>>
                \in ChatCallChoices}

\* getChatResponse has settled: its answer is posted, or the catch block
\* runs.
ChatReturns ==
    /\ chatPc = "awaitChat"
    /\ pc \in {"returned", "thrown"}
    /\ IF pc = "returned"
       THEN /\ slackCalls' = Append(slackCalls,
                                PostAnswerCall(CurrentEvent, returned.content))
            /\ chatPc' = "awaitPost"
            /\ UNCHANGED caught
       ELSE Catch(thrown.error)
    /\ UNCHANGED <<loopVars, fieldValueMapGlobal, upstreamFetches,
                   callerVars, concVars, httpRequest, handlerPc, httpResponse,
                   signatureChecked, chatInvocations, history, posted, createVars,
                   retrievalVars>>

InitChat ==
    /\ httpRequest \in AcceptedRequests
    /\ handlerPc = "received"
    /\ httpResponse = NoResponseYet
    /\ signatureChecked = FALSE
    /\ chatInvocations = <<>>
    /\ chatPc = "idle"
    /\ slackCalls = <<>>
    /\ caught = NoError
    /\ history = NoHistory
    /\ posted = <<>>
    /\ messages = <<>>
    /\ InitLoop
    /\ InitGlobal
    /\ InitCallers
    /\ InitCreateIdle
    /\ InitRetrievalIdle
    /\ InitConcurrentIdle

NextChat ==
    \/ POSTReceives
    \/ \E answer \in HistoryAnswers : HistoryArrives(answer)
    \/ \E response \in ChatFirstResponses : InitialResponse(response)
    \/ InitialRequestFails
    \/ \E i \in 1..MaxCalls, answer \in UserSearchAnswers : ToolSettles(i, answer)
    \/ FanIn
    \/ FollowUpArrives
    \/ FollowUpRequestFails
    \/ ChatReturns
    \/ \E answer \in PostAnswers : PostSettles(answer)
    \/ \E answer \in PostAnswers : ErrorPostSettles(answer)
    \/ POSTResumes

SpecChat == InitChat /\ [][NextChat]_vars

\* Every external request is answered in the end and the code between
\* two awaits runs to its end: no step that can be taken is put off for
\* ever.
FairSpecChat == SpecChat /\ WF_vars(NextChat)

\* How far the handler, sendChatResponse and getChatResponse have come.
HandlerRank ==
    CASE handlerPc = "received" -> 0
      [] handlerPc = "awaitChat" -> 1
      [] OTHER -> 2

ChatRank ==
    CASE chatPc = "idle" -> 0
      [] chatPc = "awaitHistory" -> 1
      [] chatPc = "awaitChat" -> 2
      [] chatPc = "awaitPost" -> 3
      [] chatPc = "awaitErrorPost" -> 4
      [] OTHER -> 5

LoopRank ==
    CASE pc = "start" -> 0
      [] pc = "awaitInitial" -> 1
      [] pc = "awaitTools" -> 2
      [] pc = "awaitFollowUp" -> 3
      [] OTHER -> 4

Progress ==
    <<HandlerRank, ChatRank, LoopRank, Len(settleOrder)>>

\* The terminal states of sendChatResponse: getChatResponse returned the
\* direct or the final answer and the post settled, or the catch block
\* ran.
ChatTerminated ==
    /\ chatPc \in {"done", "rejected"}
    /\ \/ /\ pc = "returned"
          /\ returned.content \in {"direct answer", "final answer"}
       \/ caught # NoError

\* C35: every invocation of sendChatResponse reaches a terminal state, and
\* every step moves at least one of the handler, sendChatResponse, the
\* loop and the settled calls forward and none backward, so that no state
\* is entered twice and the steps of an invocation are bounded.
C35_Terminates ==
    /\ <>ChatTerminated
    /\ [](chatPc \in {"done", "rejected"} => ChatTerminated)
    /\ [][/\ \A k \in 1..4 : Progress'[k] >= Progress[k]
          /\ \E k \in 1..4 : Progress'[k] > Progress[k]]_vars

\* sendChatResponse ended after both rounds of the loop: two calls were
\* answered by the issue tracker, the final answer was posted.
C35_Witness ==
    /\ chatPc = "done"
    /\ pc = "returned"
    /\ returned = FollowUpResponse
    /\ Len(settleOrder) = 2
    /\ Len(requests) = 2
    /\ Len(posted) = 1

====
